---------------------------- MODULE Spec2Model ----------------------------
(***************************************************************************)
(* Model of the worker pool of Qt-Multithreading: the WorkerController     *)
(* (its task queue, worker records and ready set), the Worker protocol,    *)
(* the Processor that forwards user requests as BlockingQueued calls, and  *)
(* the teardown of ~WorkerController.                                       *)
(*                                                                         *)
(* Every executor thread is a FIFO event queue.  A worker record of the    *)
(* code is the tuple (QThread, Worker*, QUuid); one worker instance owns   *)
(* one thread and one QUuid, so the model identifies all three with the    *)
(* instance's uuid, a number that is never reused.                         *)
(*                                                                         *)
(* The second half models the signal/slot layer of Magic.h: the connection *)
(* tables of Signal and SlotProvider with their mutexes, registerSlot and  *)
(* disconnect step by step, and the delivery of an emission row by row     *)
(* (invokeInContext, the posted closures, the per-thread sender stacks).   *)
(*                                                                         *)
(* Besides the two full specifications there are smaller sets of runs, one *)
(* per kind of question: a pool in use, retirement, shrinking, worker ids, *)
(* calls on unbound objects, chained signals, blocking connections, and    *)
(* the sender stack of one receiver.                                       *)
(***************************************************************************)
EXTENDS Integers, Sequences, FiniteSets, TLC

\* Bounds of the model.
MaxTasks == 2      \* tasks ever given to extendQueue
MaxBatch == 2      \* longest deque given to one extendQueue call
MaxThreads == 2    \* largest thread count ever requested
MaxUuid == 3       \* worker instances ever cloned

MaxEndpoints == 2  \* Signal objects, and SlotProvider objects, ever created
MaxSlots == 2      \* distinct slot functions
MaxCalls == 3      \* registerSlot / disconnect / emission / destructor calls in a run
MaxEmits == 2      \* emissions in a run that delivers row by row
MaxSetup == 2      \* connections and moves made before the first emission of such a run

\* std::size_t arithmetic is modular; the model keeps a reduced width.
SizeTModulus == 65536

Tasks == 1..MaxTasks
Uuids == 1..MaxUuid

Emitters == 1..MaxEndpoints      \* Signal objects
Receivers == 1..MaxEndpoints     \* SlotProvider objects, each with a thread of its own
Slots == 1..MaxSlots             \* functionToPointer(f); 0 stands for nullptr
CallerThreads == {1, 2}          \* threads that call into the signal layer
MainThread == 1                  \* the thread that constructs the objects
ConnectionTypes == {"direct", "queued"}
\* Qt::DirectConnection, QueuedConnection, BlockingQueuedConnection, AutoConnection
DeliveryTypes == {"direct", "queued", "blocking", "auto"}

VARIABLES
    \* WorkerController fields
    tasks,           \* std::deque<T> tasks: pending task ids, front first
    threads,         \* std::vector of worker records: uuid of the record at each position
    workersReady,    \* std::set<std::size_t>: 0-based indices into threads
    isInDestructor,  \* bool isInDestructor
    \* WorkerController executor
    wcQueue,         \* posted events of the WorkerController's thread
    wcmode,          \* "loop" (event loop), "dtor" (in ~WorkerController), "pump", "done"
    wcop,            \* the blocking step the WorkerController thread is in
    nextUuid,        \* next fresh QUuid
    \* Worker instances, by uuid
    wstatus,         \* "none", "running", "quitting" (quit() requested), "finished"
    wqueue,          \* posted events of the worker's thread
    wpc,             \* position inside receiveTask: "idle", "fulfill", "postReady"
    wtask,           \* the task receiveTask is working on (0: none)
    wbound,          \* processorContext / workerControllerContext are non-null
    wid,             \* Worker::workerUUID (index in threads + 1; 0: unset)
    \* Processor
    procQueue,       \* posted events of the Processor's thread
    procpc,          \* "idle", "blocked" (inside a BlockingQueued call), "finished"
    procBound,       \* Processor::workerControllerContext is non-null
    procQuit,        \* processorThread.quit() was called
    delivered,       \* number of receiveResult (onResult) calls per task
    \* Environment and observation
    nextTask,        \* next fresh task id; ids grow in enqueue order
    dispatchLog,     \* tasks in the order checkTasks handed them to workers
    lastOp           \* what the step just taken did, when it ended a WorkerController
                     \* operation ("none" after every other step)

VARIABLES
    \* Signal / SlotProvider layer (Magic.h)
    connectedSlots,            \* Signal::connectedSlots: per emitter and receiver, the
                               \* vector of (slot, invoker); the invoker is its connection type
    connectedKeys,             \* the keys present in each Signal::connectedSlots map
    slotsToConnectedSignals,   \* SlotProvider::slotsToConnectedSignals: per receiver and
                               \* slot, the vector of emitters
    globalMutex,               \* SlotProvider::globalMutex: the holding thread, 0 if free
    connectedSlotsMutex,       \* Signal::connectedSlotsMutex per emitter: holder, 0 if free
    callpc,                    \* per caller thread: the call it is in and what is left of it
    signalAlive,               \* emitters whose destructor has not returned
    receiverAlive,             \* receivers whose destructor has not returned
    eventQueue,                \* per receiver: closures posted to its thread
    called,                    \* what the step just taken ran: <<e, 0, 0>> is e's operator(),
                               \* <<e, r, slot>> the slot of r, invoked on behalf of e,
                               \* <<0, 0, slot>> disconnect(slot, nullptr, nullptr)
    callsMade                  \* calls into the signal layer so far

VARIABLES
    \* Delivery of emissions (Magic.h: invokeInContext, callSlot, signalSender)
    receiverThread,            \* QObject::thread() of each receiver
    frames,                    \* per caller thread: its stack of running operator() calls,
                               \* slots and blocking waits, innermost last
    signalSenders,             \* SlotProvider::signalSenders: per receiver and thread id,
                               \* the deque of emitters, back last
    emitsMade                  \* emissions so far

dVars == <<receiverThread, frames, signalSenders, emitsMade>>

mVars == <<connectedSlots, connectedKeys, slotsToConnectedSignals, globalMutex,
           connectedSlotsMutex, callpc, signalAlive, receiverAlive, eventQueue,
           called, callsMade, dVars>>

wcVars == <<tasks, threads, workersReady, isInDestructor, wcQueue, wcmode, wcop, nextUuid>>
wVars == <<wstatus, wqueue, wpc, wtask, wbound, wid>>
pVars == <<procQueue, procpc, procBound, procQuit, delivered>>
oVars == <<nextTask, dispatchLog>>
vars == <<tasks, threads, workersReady, isInDestructor, wcQueue, wcmode, wcop, nextUuid,
          wstatus, wqueue, wpc, wtask, wbound, wid,
          procQueue, procpc, procBound, procQuit, delivered,
          nextTask, dispatchLog, lastOp,
          connectedSlots, connectedKeys, slotsToConnectedSignals, globalMutex,
          connectedSlotsMutex, callpc, signalAlive, receiverAlive, eventQueue,
          called, callsMade,
          receiverThread, frames, signalSenders, emitsMade>>

-----------------------------------------------------------------------------
\* Helpers

Min(S) == CHOOSE x \in S : \A y \in S : x <= y

Range(s) == {s[i] : i \in 1..Len(s)}

\* Events
WcEv(type, n, uuid, ts) == [type |-> type, n |-> n, uuid |-> uuid, ts |-> ts]
TaskEv(t) == [type |-> "task", task |-> t]
UnbindEv == [type |-> "unbind", task |-> 0]
ResultEv(t) == [type |-> "result", task |-> t]

WcOp(op, idx, n) == [op |-> op, idx |-> idx, n |-> n]
IdleOp == WcOp("idle", 0, 0)

\* QThread::quit(): the event loop of a running thread is asked to exit.
Quit(st, U) == [u \in Uuids |-> IF u \in U /\ st[u] = "running" THEN "quitting" ELSE st[u]]


\* The part of the state that the queue operations of the WorkerController change.
St(ts, rdy, wq, log) == [tasks |-> ts, ready |-> rdy, wq |-> wq, log |-> log]
Cur == St(tasks, workersReady, wqueue, dispatchLog)

-----------------------------------------------------------------------------
\* WorkerController operations (CollatzWorker.h holds WorkerController.h)

\* Variant of checkTasks that forgets tasks.pop_front().
RECURSIVE CheckTasksKeepsTask(_, _)
CheckTasksKeepsTask(thr, st) ==
    IF st.tasks = <<>> \/ st.ready = {}
    THEN st
    ELSE LET threadIndex == Min(st.ready)
             worker == thr[threadIndex + 1]
         IN  CheckTasksKeepsTask(thr,
                 St(st.tasks,
                    st.ready \ {threadIndex},
                    [st.wq EXCEPT ![worker] = Append(@, TaskEv(Head(st.tasks)))],
                    Append(st.log, Head(st.tasks))))

\* Variant of checkTasks that forgets workersReady.erase(threadIndex).
RECURSIVE CheckTasksKeepsReady(_, _)
CheckTasksKeepsReady(thr, st) ==
    IF st.tasks = <<>> \/ st.ready = {}
    THEN st
    ELSE LET threadIndex == Min(st.ready)
             worker == thr[threadIndex + 1]
         IN  CheckTasksKeepsReady(thr,
                 St(Tail(st.tasks),
                    st.ready,
                    [st.wq EXCEPT ![worker] = Append(@, TaskEv(Head(st.tasks)))],
                    Append(st.log, Head(st.tasks))))

\* Variant of checkTasks that hands out one task at most.
CheckTasksOnce(thr, st) ==
    IF st.tasks = <<>> \/ st.ready = {}
    THEN st
    ELSE LET threadIndex == Min(st.ready)
             worker == thr[threadIndex + 1]
         IN  St(Tail(st.tasks),
                st.ready \ {threadIndex},
                [st.wq EXCEPT ![worker] = Append(@, TaskEv(Head(st.tasks)))],
                Append(st.log, Head(st.tasks)))

\* checkTasks: while there are tasks and ready workers, post receiveTask(front)
\* to the worker at the smallest ready index, pop the task, erase the index.
RECURSIVE CheckTasks(_, _)
CheckTasks(thr, st) ==
    IF st.tasks = <<>> \/ st.ready = {}
    THEN st
    ELSE LET threadIndex == Min(st.ready)
             worker == thr[threadIndex + 1]
         IN  CheckTasks(thr,
                 St(Tail(st.tasks),
                    st.ready \ {threadIndex},
                    [st.wq EXCEPT ![worker] = Append(@, TaskEv(Head(st.tasks)))],
                    Append(st.log, Head(st.tasks))))

\* Variant of extendQueue without the isInDestructor guard.
ExtendQueueUnguarded(newTasks) ==
    CheckTasks(threads, [Cur EXCEPT !.tasks = tasks \o newTasks])

\* Variant of extendQueue that inserts the new tasks at the front.
ExtendQueueAtFront(newTasks) ==
    IF ~isInDestructor
    THEN CheckTasks(threads, [Cur EXCEPT !.tasks = newTasks \o tasks])
    ELSE Cur

\* extendQueue
ExtendQueue(newTasks) ==
    IF ~isInDestructor
    THEN CheckTasks(threads, [Cur EXCEPT !.tasks = tasks \o newTasks])
    ELSE Cur

\* Variant of clearQueue that removes the front task only.
ClearQueueFrontOnly ==
    IF ~isInDestructor
    THEN [Cur EXCEPT !.tasks = IF tasks = <<>> THEN <<>> ELSE Tail(tasks)]
    ELSE Cur

\* clearQueue
ClearQueue ==
    IF ~isInDestructor
    THEN [Cur EXCEPT !.tasks = <<>>]
    ELSE Cur

\* Variant of workerFinished that takes the worker id as the index.
ThreadIndexOfId(workerID) == workerID % SizeTModulus

\* workerFinished: threadIndex = workerID - 1 in std::size_t
ThreadIndexOf(workerID) == (workerID - 1) % SizeTModulus

WorkerFinishedAccepts(workerID, workerUUID) ==
    /\ ThreadIndexOf(workerID) < Len(threads)
    /\ workerUUID = threads[ThreadIndexOf(workerID) + 1]

\* Variant of workerFinished that compares the index only, not the QUuid.
WorkerFinishedIgnoresUuid(workerID, workerUUID) ==
    IF ThreadIndexOf(workerID) < Len(threads)
    THEN CheckTasks(threads, [Cur EXCEPT !.ready = @ \cup {ThreadIndexOf(workerID)}])
    ELSE Cur

WorkerFinished(workerID, workerUUID) ==
    IF WorkerFinishedAccepts(workerID, workerUUID)
    THEN CheckTasks(threads, [Cur EXCEPT !.ready = @ \cup {ThreadIndexOf(workerID)}])
    ELSE Cur

\* setNumberOfThreads, grow branch: the guard and the records appended
GrowAllowed(numberOfThreads) ==
    ~isInDestructor /\ numberOfThreads > Len(threads)

NewUuids(numberOfThreads) == nextUuid .. (nextUuid + numberOfThreads - Len(threads) - 1)

GrownThreads(numberOfThreads) ==
    threads \o [i \in 1..(numberOfThreads - Len(threads)) |-> nextUuid + i - 1]

\* Variant of the grow branch that forgets the closing checkTasks().
GrowCheckTasksSkipped(thr, st) == st

\* setNumberOfThreads, grow branch: this->checkTasks() after the loop
GrowCheckTasks(thr, st) == CheckTasks(thr, st)

\* Variant of the shrink branch that forgets workersReady.erase.
ShrinkEraseNothing(rdy, currentThreadIndex) == rdy

\* Variant of the shrink branch that erases the worker id, index + 1.
ShrinkEraseWorkerId(rdy, currentThreadIndex) == rdy \ {currentThreadIndex + 1}

\* setNumberOfThreads, shrink branch: workersReady.erase(currentThreadIndex)
ShrinkErase(rdy, currentThreadIndex) == rdy \ {currentThreadIndex}

\* Variant of the shrink branch that forgets threads.pop_back().
ShrinkPopNothing(thr) == thr

\* setNumberOfThreads, shrink branch: threads.pop_back()
ShrinkPop(thr) == SubSeq(thr, 1, Len(thr) - 1)

\* Variant of the zero branch that forgets workersReady.clear().
ZeroClearNothing(rdy) == rdy

\* setNumberOfThreads, zero branch: workersReady.clear()
ZeroClear(rdy) == {}

-----------------------------------------------------------------------------
\* Signal / SlotProvider layer: the tables and the operations on one table

Row(slot, type) == [slot |-> slot, type |-> type]

\* vector erase of the first element that matches, as the loops of
\* disconnectLocalInSignal and disconnectLocalInSlotProvider do
RECURSIVE RemoveFirstSlot(_, _)
RemoveFirstSlot(rows, slot) ==
    IF rows = <<>> THEN <<>>
    ELSE IF Head(rows).slot = slot THEN Tail(rows)
    ELSE <<Head(rows)>> \o RemoveFirstSlot(Tail(rows), slot)

RECURSIVE RemoveFirstSignal(_, _)
RemoveFirstSignal(signalProviders, signalProvider) ==
    IF signalProviders = <<>> THEN <<>>
    ELSE IF Head(signalProviders) = signalProvider THEN Tail(signalProviders)
    ELSE <<Head(signalProviders)>> \o RemoveFirstSignal(Tail(signalProviders), signalProvider)

\* Variant of connectionExists that never finds the row.
ConnectionExistsNever(e, slotProvider, slot) == FALSE

\* Signal::connectionExists
ConnectionExists(e, slotProvider, slot) ==
    /\ slotProvider \in connectedKeys[e]
    /\ \E i \in 1..Len(connectedSlots[e][slotProvider]) :
          connectedSlots[e][slotProvider][i].slot = slot

\* Signal::getConnectedSlots: the keys of connectedSlots
GetConnectedSlots(e) == connectedKeys[e]

\* Variant of getConnectedSignals that finds no emitter.
GetConnectedSignalsNone(r) == {}

\* SlotProvider::getConnectedSignals: every emitter in some vector
GetConnectedSignals(r) ==
    UNION {Range(slotsToConnectedSignals[r][slot]) : slot \in Slots}

\* Variant of disconnectLocalInSignal that erases nothing.
DisconnectLocalInSignalKeeps(e, slot, slotProvider) ==
    [rows |-> connectedSlots[e], keys |-> connectedKeys[e]]

\* Variant of disconnectLocalInSignal whose loop over the map ends at the
\* first vector it erases from.
DisconnectLocalInSignalFirstOnly(e, slot, slotProvider) ==
    IF slot = 0 /\ slotProvider = 0
    THEN [rows |-> [r \in Receivers |-> <<>>], keys |-> {}]
    ELSE IF slot = 0
    THEN [rows |-> [connectedSlots[e] EXCEPT ![slotProvider] = <<>>],
          keys |-> connectedKeys[e] \ {slotProvider}]
    ELSE IF slotProvider = 0
    THEN [rows |-> [r \in Receivers |->
                       IF \E x \in 1..(r - 1) : \E i \in 1..Len(connectedSlots[e][x]) :
                              connectedSlots[e][x][i].slot = slot
                       THEN connectedSlots[e][r]
                       ELSE RemoveFirstSlot(connectedSlots[e][r], slot)],
          keys |-> connectedKeys[e]]
    ELSE IF slotProvider \in connectedKeys[e]
    THEN [rows |-> [connectedSlots[e] EXCEPT ![slotProvider] = RemoveFirstSlot(@, slot)],
          keys |-> connectedKeys[e]]
    ELSE [rows |-> connectedSlots[e], keys |-> connectedKeys[e]]

\* Signal::disconnectLocalInSignal(slot, slotProvider) on emitter e: the new
\* vectors and keys of e's connectedSlots
DisconnectLocalInSignal(e, slot, slotProvider) ==
    IF slot = 0 /\ slotProvider = 0
    THEN [rows |-> [r \in Receivers |-> <<>>], keys |-> {}]
    ELSE IF slot = 0
    THEN [rows |-> [connectedSlots[e] EXCEPT ![slotProvider] = <<>>],
          keys |-> connectedKeys[e] \ {slotProvider}]
    ELSE IF slotProvider = 0
    THEN [rows |-> [r \in Receivers |-> RemoveFirstSlot(connectedSlots[e][r], slot)],
          keys |-> connectedKeys[e]]
    ELSE IF slotProvider \in connectedKeys[e]
    THEN [rows |-> [connectedSlots[e] EXCEPT ![slotProvider] = RemoveFirstSlot(@, slot)],
          keys |-> connectedKeys[e]]
    ELSE [rows |-> connectedSlots[e], keys |-> connectedKeys[e]]

\* Variant of disconnectLocalInSlotProvider that erases nothing.
DisconnectLocalInSlotProviderKeeps(r, slot, signalProvider) == slotsToConnectedSignals[r]

\* SlotProvider::disconnectLocalInSlotProvider(slot, signalProvider) on
\* receiver r: the new vectors of r's slotsToConnectedSignals
DisconnectLocalInSlotProvider(r, slot, signalProvider) ==
    IF slot = 0 /\ signalProvider = 0
    THEN [s \in Slots |-> <<>>]
    ELSE IF slot # 0 /\ signalProvider = 0
    THEN [slotsToConnectedSignals[r] EXCEPT ![slot] = <<>>]
    ELSE IF slot = 0
    THEN [s \in Slots |-> RemoveFirstSignal(slotsToConnectedSignals[r][s], signalProvider)]
    ELSE [slotsToConnectedSignals[r] EXCEPT ![slot] = RemoveFirstSignal(@, signalProvider)]

\* The local calls one SlotProvider::disconnect(slot, signalProvider,
\* slotProvider) makes after locking globalMutex, in order; a loop over an
\* unordered_set runs in any order.
LocalInSignal(e, slot, r) == [on |-> "signal", target |-> e, slot |-> slot, other |-> r]
LocalInSlotProvider(r, slot, e) == [on |-> "slots", target |-> r, slot |-> slot, other |-> e]

RECURSIVE Orders(_)
Orders(S) ==
    IF S = {} THEN {<<>>}
    ELSE UNION {{<<x>> \o o : o \in Orders(S \ {x})} : x \in S}

DisconnectPlans(slot, signalProvider, slotProvider) ==
    IF signalProvider # 0 /\ slotProvider # 0
    THEN {<<LocalInSignal(signalProvider, slot, slotProvider),
            LocalInSlotProvider(slotProvider, slot, signalProvider)>>}
    ELSE IF slotProvider # 0
    THEN {[i \in 1..Len(o) |-> LocalInSignal(o[i], slot, slotProvider)]
              \o <<LocalInSlotProvider(slotProvider, slot, 0)>> :
          o \in Orders(GetConnectedSignals(slotProvider))}
    ELSE {[i \in 1..Len(o) |-> LocalInSlotProvider(o[i], slot, signalProvider)]
              \o <<LocalInSignal(signalProvider, slot, 0)>> :
          o \in Orders(GetConnectedSlots(signalProvider))}

\* Position of a caller thread
CallPc(op, todo, dying) == [op |-> op, todo |-> todo, dying |-> dying]
CallIdle == CallPc("idle", <<>>, <<>>)

\* The signal layer before any connection is made.
SignalsInit ==
    /\ connectedSlots = [e \in Emitters |-> [r \in Receivers |-> <<>>]]
    /\ connectedKeys = [e \in Emitters |-> {}]
    /\ slotsToConnectedSignals = [r \in Receivers |-> [s \in Slots |-> <<>>]]
    /\ globalMutex = 0
    /\ connectedSlotsMutex = [e \in Emitters |-> 0]
    /\ callpc = [t \in CallerThreads |-> CallIdle]
    /\ signalAlive = [e \in Emitters |-> TRUE]
    /\ receiverAlive = [r \in Receivers |-> TRUE]
    /\ eventQueue = [r \in Receivers |-> <<>>]
    /\ called = {}
    /\ callsMade = 0
    /\ receiverThread = [r \in Receivers |-> MainThread]
    /\ frames = [t \in CallerThreads |-> <<>>]
    /\ signalSenders = [r \in Receivers |-> [t \in CallerThreads |-> <<>>]]
    /\ emitsMade = 0

-----------------------------------------------------------------------------
Init ==
    \E n0 \in 0..MaxThreads :
        /\ n0 <= MaxUuid
        /\ tasks = <<>>
        /\ threads = [i \in 1..n0 |-> i]
        /\ workersReady = 0..(n0 - 1)
        /\ isInDestructor = FALSE
        /\ wcQueue = <<>>
        /\ wcmode = "loop"
        /\ wcop = IdleOp
        /\ nextUuid = n0 + 1
        /\ wstatus = [u \in Uuids |-> IF u <= n0 THEN "running" ELSE "none"]
        /\ wqueue = [u \in Uuids |-> <<>>]
        /\ wpc = [u \in Uuids |-> "idle"]
        /\ wtask = [u \in Uuids |-> 0]
        /\ wbound = [u \in Uuids |-> u <= n0]
        /\ wid = [u \in Uuids |-> IF u <= n0 THEN u ELSE 0]
        /\ procQueue = <<>>
        /\ procpc = "idle"
        /\ procBound = TRUE
        /\ procQuit = FALSE
        /\ delivered = [t \in Tasks |-> 0]
        /\ nextTask = 1
        /\ dispatchLog = <<>>
        /\ lastOp = "none"
        /\ SignalsInit

-----------------------------------------------------------------------------
\* Processor: the protected operations, each a BlockingQueued call to the
\* WorkerController (no call at all once workerControllerContext is null).

ProcAlive == procpc = "idle"

\* Variant of the Processor's calls that goes by the kept workerController
\* pointer where the context is null.
ProcPostByPointer(ev) ==
    /\ wcQueue' = Append(wcQueue, ev)
    /\ procpc' = "blocked"

ProcPost(ev) ==
    IF procBound
    THEN /\ wcQueue' = Append(wcQueue, ev)
         /\ procpc' = "blocked"
    ELSE UNCHANGED <<wcQueue, procpc>>

ProcSetNumberOfThreads(n) ==
    /\ ProcAlive
    /\ n <= Len(threads) \/ nextUuid + (n - Len(threads)) - 1 <= MaxUuid
    /\ ProcPost(WcEv("setThreads", n, 0, <<>>))
    /\ UNCHANGED <<tasks, threads, workersReady, isInDestructor, wcmode, wcop, nextUuid>>
    /\ UNCHANGED <<procQueue, procBound, procQuit, delivered>>
    /\ UNCHANGED <<wVars, oVars>>
    /\ lastOp' = "none"
    /\ UNCHANGED mVars

ProcClearQueue ==
    /\ ProcAlive
    /\ ProcPost(WcEv("clear", 0, 0, <<>>))
    /\ UNCHANGED <<tasks, threads, workersReady, isInDestructor, wcmode, wcop, nextUuid>>
    /\ UNCHANGED <<procQueue, procBound, procQuit, delivered>>
    /\ UNCHANGED <<wVars, oVars>>
    /\ lastOp' = "none"
    /\ UNCHANGED mVars

ProcExtendQueue(k) ==
    /\ ProcAlive
    /\ procBound
    /\ nextTask + k - 1 <= MaxTasks
    /\ ProcPost(WcEv("extend", 0, 0, [i \in 1..k |-> nextTask + i - 1]))
    /\ nextTask' = nextTask + k
    /\ UNCHANGED <<tasks, threads, workersReady, isInDestructor, wcmode, wcop, nextUuid>>
    /\ UNCHANGED <<procQueue, procBound, procQuit, delivered>>
    /\ UNCHANGED <<wVars, dispatchLog>>
    /\ lastOp' = "none"
    /\ UNCHANGED mVars

\* The Processor's event loop runs the next posted closure.
ProcReceiveResult ==
    /\ ProcAlive
    /\ procQueue # <<>>
    /\ Head(procQueue).type = "result"
    /\ delivered' = [delivered EXCEPT ![Head(procQueue).task] = @ + 1]
    /\ procQueue' = Tail(procQueue)
    /\ UNCHANGED <<procpc, procBound, procQuit>>
    /\ UNCHANGED <<wcVars, wVars, oVars>>
    /\ lastOp' = "none"
    /\ UNCHANGED mVars

\* processor->setupConnections() posted by ~WorkerController
ProcSetupConnections ==
    /\ ProcAlive
    /\ procQueue # <<>>
    /\ Head(procQueue).type = "unbind"
    /\ procBound' = FALSE
    /\ procQueue' = Tail(procQueue)
    /\ UNCHANGED <<procpc, procQuit, delivered>>
    /\ UNCHANGED <<wcVars, wVars, oVars>>
    /\ lastOp' = "none"
    /\ UNCHANGED mVars

\* After processorThread.quit() the event loop exits between two closures;
\* what is still posted is never run.
ProcExit ==
    /\ ProcAlive
    /\ procQuit
    /\ procpc' = "finished"
    /\ procQueue' = <<>>
    /\ UNCHANGED <<procBound, procQuit, delivered>>
    /\ UNCHANGED <<wcVars, wVars, oVars>>
    /\ lastOp' = "none"
    /\ UNCHANGED mVars

-----------------------------------------------------------------------------
\* Worker: receiveTask in three steps (fulfillTask runs, the result is posted
\* to the Processor, the ready notification is posted to the WorkerController)

WorkerLoopRuns(u) == wstatus[u] \in {"running", "quitting"}

WorkerReceiveTask(u) ==
    /\ WorkerLoopRuns(u)
    /\ wpc[u] = "idle"
    /\ wqueue[u] # <<>>
    /\ Head(wqueue[u]).type = "task"
    /\ wpc' = [wpc EXCEPT ![u] = "fulfill"]
    /\ wtask' = [wtask EXCEPT ![u] = Head(wqueue[u]).task]
    /\ wqueue' = [wqueue EXCEPT ![u] = Tail(@)]
    /\ UNCHANGED <<wstatus, wbound, wid>>
    /\ UNCHANGED <<wcVars, pVars, oVars>>
    /\ lastOp' = "none"
    /\ UNCHANGED mVars

\* Variant of receiveTask that notifies the WorkerController first, where the
\* result should be posted.
WorkerPostResultReadyFirst(u) ==
    /\ wpc[u] = "fulfill"
    /\ wcQueue' = IF wbound[u] THEN Append(wcQueue, WcEv("ready", wid[u], u, <<>>)) ELSE wcQueue
    /\ wpc' = [wpc EXCEPT ![u] = "postReady"]
    /\ UNCHANGED <<wstatus, wqueue, wtask, wbound, wid>>
    /\ UNCHANGED <<tasks, threads, workersReady, isInDestructor, wcmode, wcop, nextUuid>>
    /\ UNCHANGED <<pVars, oVars>>
    /\ lastOp' = "none"
    /\ UNCHANGED mVars

\* invokeInContext(processorContext, QueuedConnection, resultCalculated, ...):
\* QMetaObject::invokeMethod posts nothing when the context is null.
WorkerPostResult(u) ==
    /\ wpc[u] = "fulfill"
    /\ procQueue' = IF wbound[u] THEN Append(procQueue, ResultEv(wtask[u])) ELSE procQueue
    /\ wpc' = [wpc EXCEPT ![u] = "postReady"]
    /\ UNCHANGED <<wstatus, wqueue, wtask, wbound, wid>>
    /\ UNCHANGED <<procpc, procBound, procQuit, delivered>>
    /\ UNCHANGED <<wcVars, oVars>>
    /\ lastOp' = "none"
    /\ UNCHANGED mVars

\* invokeInContext(workerControllerContext, QueuedConnection, workDone,
\*                 workerController, workerUUID, uniqueWorkerUUID)
WorkerPostReady(u) ==
    /\ wpc[u] = "postReady"
    /\ wcQueue' = IF wbound[u] THEN Append(wcQueue, WcEv("ready", wid[u], u, <<>>)) ELSE wcQueue
    /\ wpc' = [wpc EXCEPT ![u] = "idle"]
    /\ wtask' = [wtask EXCEPT ![u] = 0]
    /\ UNCHANGED <<wstatus, wqueue, wbound, wid>>
    /\ UNCHANGED <<tasks, threads, workersReady, isInDestructor, wcmode, wcop, nextUuid>>
    /\ UNCHANGED <<pVars, oVars>>
    /\ lastOp' = "none"
    /\ UNCHANGED mVars

\* worker->setupConnections() with no arguments, called BlockingQueued by
\* ~WorkerController: the contexts become null, the id is kept, and the
\* destructor goes on to the next worker.
WorkerSetupConnections(u) ==
    /\ WorkerLoopRuns(u)
    /\ wpc[u] = "idle"
    /\ wqueue[u] # <<>>
    /\ Head(wqueue[u]).type = "unbind"
    /\ wbound' = [wbound EXCEPT ![u] = FALSE]
    /\ wqueue' = [wqueue EXCEPT ![u] = Tail(@)]
    /\ wcop' = WcOp("unbindNext", wcop.idx + 1, 0)
    /\ UNCHANGED <<wstatus, wpc, wtask, wid>>
    /\ UNCHANGED <<tasks, threads, workersReady, isInDestructor, wcQueue, wcmode, nextUuid>>
    /\ UNCHANGED <<pVars, oVars>>
    /\ lastOp' = "none"
    /\ UNCHANGED mVars

\* Variant of the worker thread's exit that does not wait for the closure
\* that is running.
WorkerExitAtOnce(u) ==
    /\ wstatus[u] = "quitting"
    /\ wstatus' = [wstatus EXCEPT ![u] = "finished"]
    /\ wqueue' = [wqueue EXCEPT ![u] = <<>>]
    /\ wbound' = [wbound EXCEPT ![u] = FALSE]
    /\ wid' = [wid EXCEPT ![u] = 0]
    /\ wpc' = [wpc EXCEPT ![u] = "idle"]
    /\ UNCHANGED wtask
    /\ UNCHANGED <<wcVars, pVars, oVars>>
    /\ lastOp' = "none"
    /\ UNCHANGED mVars

\* After quit() the worker's event loop exits between two closures; closures
\* still posted are destroyed with the worker (deleteLater on finished).
WorkerExit(u) ==
    /\ wstatus[u] = "quitting"
    /\ wpc[u] = "idle"
    /\ wstatus' = [wstatus EXCEPT ![u] = "finished"]
    /\ wqueue' = [wqueue EXCEPT ![u] = <<>>]
    /\ wbound' = [wbound EXCEPT ![u] = FALSE]
    /\ wid' = [wid EXCEPT ![u] = 0]
    /\ UNCHANGED <<wpc, wtask>>
    /\ UNCHANGED <<wcVars, pVars, oVars>>
    /\ lastOp' = "none"
    /\ UNCHANGED mVars

-----------------------------------------------------------------------------
\* WorkerController executor: the event loop (or, in the destructor,
\* QCoreApplication::processEvents) runs the next posted closure.

\* Variant in which the destructor waits for the Processor's thread without
\* QCoreApplication::processEvents().
HandlingLoopOnly ==
    /\ wcmode = "loop"
    /\ wcop = IdleOp
    /\ wcQueue # <<>>

Handling ==
    /\ wcmode \in {"loop", "pump"}
    /\ wcop = IdleOp
    /\ wcQueue # <<>>

\* Writes the result of a queue operation back to the WorkerController.
Apply(st) ==
    /\ tasks' = st.tasks
    /\ workersReady' = st.ready
    /\ wqueue' = st.wq
    /\ dispatchLog' = st.log

WcWorkerFinished ==
    /\ Handling
    /\ Head(wcQueue).type = "ready"
    /\ Apply(WorkerFinished(Head(wcQueue).n, Head(wcQueue).uuid))
    /\ lastOp' = IF WorkerFinishedAccepts(Head(wcQueue).n, Head(wcQueue).uuid)
                 THEN "readyAccepted"
                 ELSE IF ThreadIndexOf(Head(wcQueue).n) < Len(threads)
                      THEN "readyMismatch"
                      ELSE "readyDiscarded"
    /\ wcQueue' = Tail(wcQueue)
    /\ UNCHANGED <<threads, isInDestructor, wcmode, wcop, nextUuid>>
    /\ UNCHANGED <<wstatus, wpc, wtask, wbound, wid>>
    /\ UNCHANGED <<pVars, nextTask>>
    /\ UNCHANGED mVars

WcExtendQueue ==
    /\ Handling
    /\ Head(wcQueue).type = "extend"
    /\ Apply(ExtendQueue(Head(wcQueue).ts))
    /\ lastOp' = IF isInDestructor THEN "extendDropped" ELSE "extend"
    /\ wcQueue' = Tail(wcQueue)
    /\ procpc' = "idle"
    /\ UNCHANGED <<threads, isInDestructor, wcmode, wcop, nextUuid>>
    /\ UNCHANGED <<wstatus, wpc, wtask, wbound, wid>>
    /\ UNCHANGED <<procQueue, procBound, procQuit, delivered>>
    /\ UNCHANGED nextTask
    /\ UNCHANGED mVars

WcClearQueue ==
    /\ Handling
    /\ Head(wcQueue).type = "clear"
    /\ Apply(ClearQueue)
    /\ lastOp' = IF isInDestructor THEN "clearDropped" ELSE "clear"
    /\ wcQueue' = Tail(wcQueue)
    /\ procpc' = "idle"
    /\ UNCHANGED <<threads, isInDestructor, wcmode, wcop, nextUuid>>
    /\ UNCHANGED <<wstatus, wpc, wtask, wbound, wid>>
    /\ UNCHANGED <<procQueue, procBound, procQuit, delivered>>
    /\ UNCHANGED nextTask
    /\ UNCHANGED mVars

\* setNumberOfThreads(0): quit() on every worker thread, then wait() on each.
WcSetThreadsZero ==
    /\ Handling
    /\ Head(wcQueue).type = "setThreads"
    /\ Head(wcQueue).n = 0
    /\ wstatus' = Quit(wstatus, Range(threads))
    /\ wcop' = WcOp("zero", 0, 0)
    /\ wcQueue' = Tail(wcQueue)
    /\ UNCHANGED <<tasks, threads, workersReady, isInDestructor, wcmode, nextUuid>>
    /\ UNCHANGED <<wqueue, wpc, wtask, wbound, wid>>
    /\ UNCHANGED <<pVars, oVars>>
    /\ lastOp' = "none"
    /\ UNCHANGED mVars

\* The wait() calls have returned: threads.clear(); workersReady.clear().
\* Called by the Processor, the call returns to it; called by the destructor,
\* the destructor goes on to processorThread.quit().
WcZeroJoin ==
    /\ wcop.op = "zero"
    /\ \A u \in Range(threads) : wstatus[u] = "finished"
    /\ threads' = <<>>
    /\ workersReady' = ZeroClear(workersReady)
    /\ wcop' = IdleOp
    /\ IF wcmode = "dtor"
       THEN /\ wcmode' = "pump"
            /\ procQuit' = TRUE
            /\ lastOp' = "none"
            /\ UNCHANGED procpc
       ELSE /\ procpc' = "idle"
            /\ lastOp' = "zero"
            /\ UNCHANGED <<wcmode, procQuit>>
    /\ UNCHANGED <<tasks, isInDestructor, wcQueue, nextUuid>>
    /\ UNCHANGED <<procQueue, procBound, delivered>>
    /\ UNCHANGED <<wVars, nextTask, dispatchLog>>
    /\ UNCHANGED mVars

\* setNumberOfThreads(n), 0 < n < threads.size(): the loop starts at the last
\* record with quit() and wait().
WcSetThreadsShrink ==
    /\ Handling
    /\ Head(wcQueue).type = "setThreads"
    /\ Head(wcQueue).n # 0
    /\ Head(wcQueue).n < Len(threads)
    /\ wstatus' = Quit(wstatus, {threads[Len(threads)]})
    /\ wcop' = WcOp("shrink", Len(threads) - 1, Head(wcQueue).n)
    /\ wcQueue' = Tail(wcQueue)
    /\ UNCHANGED <<tasks, threads, workersReady, isInDestructor, wcmode, nextUuid>>
    /\ UNCHANGED <<wqueue, wpc, wtask, wbound, wid>>
    /\ UNCHANGED <<pVars, oVars>>
    /\ lastOp' = "none"
    /\ UNCHANGED mVars

\* wait() has returned for the record at currentThreadIndex: pop_back(),
\* workersReady.erase(currentThreadIndex), --currentThreadIndex, and either
\* the next iteration's quit() or the end of the call.
WcShrinkJoin ==
    /\ wcop.op = "shrink"
    /\ wstatus[threads[wcop.idx + 1]] = "finished"
    /\ threads' = ShrinkPop(threads)
    /\ workersReady' = ShrinkErase(workersReady, wcop.idx)
    /\ LET next == (wcop.idx - 1) % SizeTModulus
       IN  IF next >= wcop.n
           THEN /\ wstatus' = Quit(wstatus, {threads[next + 1]})
                /\ wcop' = WcOp("shrink", next, wcop.n)
                /\ lastOp' = "none"
                /\ UNCHANGED procpc
           ELSE /\ wcop' = IdleOp
                /\ procpc' = "idle"
                /\ lastOp' = "shrink"
                /\ UNCHANGED wstatus
    /\ UNCHANGED <<tasks, isInDestructor, wcQueue, wcmode, nextUuid>>
    /\ UNCHANGED <<wqueue, wpc, wtask, wbound, wid>>
    /\ UNCHANGED <<procQueue, procBound, procQuit, delivered>>
    /\ UNCHANGED <<nextTask, dispatchLog>>
    /\ UNCHANGED mVars

\* setNumberOfThreads(n), grow branch: clone, emplace_back, workersReady.insert,
\* setupConnections(currentThreadIndex + 1, ...), start; then checkTasks().
WcSetThreadsGrow ==
    /\ Handling
    /\ Head(wcQueue).type = "setThreads"
    /\ Head(wcQueue).n # 0
    /\ ~(Head(wcQueue).n < Len(threads))
    /\ GrowAllowed(Head(wcQueue).n)
    /\ LET n == Head(wcQueue).n
           new == NewUuids(n)
           thr == GrownThreads(n)
           st == GrowCheckTasks(thr, [Cur EXCEPT !.ready = @ \cup (Len(threads)..(n - 1))])
       IN  /\ threads' = thr
           /\ Apply(st)
           /\ nextUuid' = nextUuid + Cardinality(new)
           /\ wstatus' = [u \in Uuids |-> IF u \in new THEN "running" ELSE wstatus[u]]
           /\ wbound' = [u \in Uuids |-> IF u \in new THEN TRUE ELSE wbound[u]]
           /\ wid' = [u \in Uuids |-> IF u \in new
                                      THEN Len(threads) + (u - nextUuid) + 1
                                      ELSE wid[u]]
    /\ lastOp' = "grow"
    /\ wcQueue' = Tail(wcQueue)
    /\ procpc' = "idle"
    /\ UNCHANGED <<isInDestructor, wcmode, wcop>>
    /\ UNCHANGED <<wpc, wtask>>
    /\ UNCHANGED <<procQueue, procBound, procQuit, delivered>>
    /\ UNCHANGED nextTask
    /\ UNCHANGED mVars

\* setNumberOfThreads(n) when no branch applies: n equals the current size, or
\* more workers are asked for while isInDestructor.
WcSetThreadsNone ==
    /\ Handling
    /\ Head(wcQueue).type = "setThreads"
    /\ Head(wcQueue).n # 0
    /\ ~(Head(wcQueue).n < Len(threads))
    /\ ~GrowAllowed(Head(wcQueue).n)
    /\ lastOp' = IF Head(wcQueue).n > Len(threads) THEN "growDropped" ELSE "sameSize"
    /\ wcQueue' = Tail(wcQueue)
    /\ procpc' = "idle"
    /\ UNCHANGED <<tasks, threads, workersReady, isInDestructor, wcmode, wcop, nextUuid>>
    /\ UNCHANGED <<procQueue, procBound, procQuit, delivered>>
    /\ UNCHANGED <<wVars, nextTask, dispatchLog>>
    /\ UNCHANGED mVars

-----------------------------------------------------------------------------
\* ~WorkerController.  ~Controller quits the WorkerController's thread; its
\* event loop exits between two closures and the destructor runs on it.

DtorStart ==
    /\ wcmode = "loop"
    /\ wcop = IdleOp
    /\ isInDestructor' = TRUE
    /\ procQueue' = Append(procQueue, UnbindEv)
    /\ wcmode' = "dtor"
    /\ wcop' = WcOp("unbindNext", 0, 0)
    /\ UNCHANGED <<tasks, threads, workersReady, wcQueue, nextUuid>>
    /\ UNCHANGED <<procpc, procBound, procQuit, delivered>>
    /\ UNCHANGED <<wVars, oVars>>
    /\ lastOp' = "none"
    /\ UNCHANGED mVars

\* for (auto &threadTuple : threads) invokeInContext(worker, BlockingQueued, setupConnections)
DtorUnbindWorker ==
    /\ wcmode = "dtor"
    /\ wcop.op = "unbindNext"
    /\ wcop.idx < Len(threads)
    /\ wqueue' = [wqueue EXCEPT ![threads[wcop.idx + 1]] = Append(@, UnbindEv)]
    /\ wcop' = WcOp("unbind", wcop.idx, 0)
    /\ UNCHANGED <<tasks, threads, workersReady, isInDestructor, wcQueue, wcmode, nextUuid>>
    /\ UNCHANGED <<wstatus, wpc, wtask, wbound, wid>>
    /\ UNCHANGED <<pVars, oVars>>
    /\ lastOp' = "none"
    /\ UNCHANGED mVars

\* this->setNumberOfThreads(0)
DtorSetThreadsZero ==
    /\ wcmode = "dtor"
    /\ wcop.op = "unbindNext"
    /\ wcop.idx = Len(threads)
    /\ wstatus' = Quit(wstatus, Range(threads))
    /\ wcop' = WcOp("zero", 0, 0)
    /\ UNCHANGED <<tasks, threads, workersReady, isInDestructor, wcQueue, wcmode, nextUuid>>
    /\ UNCHANGED <<wqueue, wpc, wtask, wbound, wid>>
    /\ UNCHANGED <<pVars, oVars>>
    /\ lastOp' = "none"
    /\ UNCHANGED mVars

\* while (!processorThread.wait(1)) processEvents(); ends once the Processor's
\* thread has finished.
DtorDone ==
    /\ wcmode = "pump"
    /\ wcop = IdleOp
    /\ procpc = "finished"
    /\ wcmode' = "done"
    /\ UNCHANGED <<tasks, threads, workersReady, isInDestructor, wcQueue, wcop, nextUuid>>
    /\ UNCHANGED <<wVars, pVars, oVars>>
    /\ lastOp' = "none"
    /\ UNCHANGED mVars

-----------------------------------------------------------------------------
Next ==
    \/ \E n \in 0..MaxThreads : ProcSetNumberOfThreads(n)
    \/ ProcClearQueue
    \/ \E k \in 1..MaxBatch : ProcExtendQueue(k)
    \/ ProcReceiveResult
    \/ ProcSetupConnections
    \/ ProcExit
    \/ \E u \in Uuids : WorkerReceiveTask(u)
    \/ \E u \in Uuids : WorkerPostResult(u)
    \/ \E u \in Uuids : WorkerPostReady(u)
    \/ \E u \in Uuids : WorkerSetupConnections(u)
    \/ \E u \in Uuids : WorkerExit(u)
    \/ WcWorkerFinished
    \/ WcExtendQueue
    \/ WcClearQueue
    \/ WcSetThreadsZero
    \/ WcZeroJoin
    \/ WcSetThreadsShrink
    \/ WcShrinkJoin
    \/ WcSetThreadsGrow
    \/ WcSetThreadsNone
    \/ DtorStart
    \/ DtorUnbindWorker
    \/ DtorSetThreadsZero
    \/ DtorDone

Spec == Init /\ [][Next]_vars

-----------------------------------------------------------------------------
\* Scheduling: every thread that can take its next step takes it (the
\* destructor goes on, a worker's fulfillTask returns and its event loop runs
\* the next closure or exits after quit(), the WorkerController runs the
\* closure at the head of its queue).  The Processor's calls are made from
\* slots that return, so its event loop gets control again and again and
\* acts on quit(): strong fairness of ProcExit.

ShutdownFairness ==
    /\ WF_vars(DtorUnbindWorker)
    /\ WF_vars(DtorSetThreadsZero)
    /\ WF_vars(DtorDone)
    /\ WF_vars(WcZeroJoin)
    /\ WF_vars(WcShrinkJoin)
    /\ WF_vars(WcWorkerFinished)
    /\ WF_vars(WcExtendQueue)
    /\ WF_vars(WcClearQueue)
    /\ WF_vars(WcSetThreadsZero)
    /\ WF_vars(WcSetThreadsShrink)
    /\ WF_vars(WcSetThreadsGrow)
    /\ WF_vars(WcSetThreadsNone)
    /\ \A u \in Uuids : WF_vars(WorkerReceiveTask(u))
    /\ \A u \in Uuids : WF_vars(WorkerPostResult(u))
    /\ \A u \in Uuids : WF_vars(WorkerPostReady(u))
    /\ \A u \in Uuids : WF_vars(WorkerSetupConnections(u))
    /\ \A u \in Uuids : WF_vars(WorkerExit(u))
    /\ SF_vars(ProcExit)

ShutdownSpec == Init /\ [][Next]_vars /\ ShutdownFairness

-----------------------------------------------------------------------------
\* Runs with calls on unbound objects.  In the runs above no receiveTask is
\* posted to a worker once its setupConnections() has run, and the model of
\* extendQueue leaves out the calls an unbound Processor makes.  Here both
\* are made: a receiveTask closure with the task handed out last is posted to
\* the first worker, unbound and with its event loop running, and the unbound
\* Processor calls extendQueue with tasks that are not counted as enqueued.
\* While it is bound the Processor only calls extendQueue; once unbound it
\* makes every call.

StrayReceiveTask(u, t) ==
    /\ WorkerLoopRuns(u)
    /\ ~wbound[u]
    /\ wpc[u] = "idle"
    /\ wqueue[u] = <<>>
    /\ threads # <<>>
    /\ u = threads[1]
    /\ dispatchLog # <<>>
    /\ t = dispatchLog[Len(dispatchLog)]
    /\ wqueue' = [wqueue EXCEPT ![u] = <<TaskEv(t)>>]
    /\ UNCHANGED <<wstatus, wpc, wtask, wbound, wid>>
    /\ UNCHANGED <<wcVars, pVars, oVars>>
    /\ lastOp' = "none"
    /\ UNCHANGED mVars

ProcExtendQueueUnbound(k) ==
    /\ ProcAlive
    /\ ~procBound
    /\ ProcPost(WcEv("extend", 0, 0, [i \in 1..k |-> i]))
    /\ UNCHANGED <<tasks, threads, workersReady, isInDestructor, wcmode, wcop, nextUuid>>
    /\ UNCHANGED <<procQueue, procBound, procQuit, delivered>>
    /\ UNCHANGED <<wVars, oVars>>
    /\ lastOp' = "none"
    /\ UNCHANGED mVars

UnboundNext ==
    \/ \E k \in 1..MaxBatch : ProcExtendQueue(k)
    \/ \E n \in 0..MaxThreads : ~procBound /\ ProcSetNumberOfThreads(n)
    \/ ~procBound /\ ProcClearQueue
    \/ \E k \in 1..MaxBatch : ProcExtendQueueUnbound(k)
    \/ ProcReceiveResult
    \/ ProcSetupConnections
    \/ ProcExit
    \/ \E u \in Uuids : WorkerReceiveTask(u)
    \/ \E u \in Uuids : WorkerPostResult(u)
    \/ \E u \in Uuids : WorkerPostReady(u)
    \/ \E u \in Uuids : WorkerSetupConnections(u)
    \/ \E u \in Uuids : WorkerExit(u)
    \/ \E u \in Uuids, t \in Tasks : StrayReceiveTask(u, t)
    \/ WcWorkerFinished
    \/ WcExtendQueue
    \/ WcZeroJoin
    \/ DtorStart
    \/ DtorUnbindWorker
    \/ DtorSetThreadsZero
    \/ DtorDone

UnboundSpec == Init /\ [][UnboundNext]_vars

-----------------------------------------------------------------------------
\* Steady-state runs: the pool is built with at least one worker, the
\* Processor only calls extendQueue and setNumberOfThreads(n) with n >= 1,
\* and the Controller is not destroyed.

SteadyInit == Init /\ Len(threads) >= 1

SteadyNext ==
    \/ \E n \in 1..MaxThreads : ProcSetNumberOfThreads(n)
    \/ \E k \in 1..MaxBatch : ProcExtendQueue(k)
    \/ ProcReceiveResult
    \/ \E u \in Uuids : WorkerReceiveTask(u)
    \/ \E u \in Uuids : WorkerPostResult(u)
    \/ \E u \in Uuids : WorkerPostReady(u)
    \/ \E u \in Uuids : WorkerExit(u)
    \/ WcWorkerFinished
    \/ WcExtendQueue
    \/ WcSetThreadsShrink
    \/ WcShrinkJoin
    \/ WcSetThreadsGrow
    \/ WcSetThreadsNone

SteadySpec == SteadyInit /\ [][SteadyNext]_vars

-----------------------------------------------------------------------------
\* Signal / SlotProvider layer: the calls.  A caller thread makes one call at
\* a time; a call that locks globalMutex keeps it until it returns.

LocalStep(on, target, slot, other, type) ==
    [on |-> on, target |-> target, slot |-> slot, other |-> other, type |-> type]

\* The endpoints and slots a local call of thread t names
StepNames(t) ==
    IF callpc[t].todo = <<>> THEN [e |-> {}, r |-> {}, slot |-> {}]
    ELSE LET step == Head(callpc[t].todo)
         IN  IF step.on \in {"append", "signal"}
             THEN [e |-> {step.target}, r |-> {step.other}, slot |-> {step.slot}]
             ELSE [e |-> {step.other}, r |-> {step.target}, slot |-> {step.slot}]

\* An emitter, receiver or slot is named once a table, an event queue, a
\* running call or a running slot refers to it, or once it is destroyed.
EmitterNamed(e) ==
    \/ ~signalAlive[e]
    \/ connectedKeys[e] # {}
    \/ \E r \in Receivers, slot \in Slots : e \in Range(slotsToConnectedSignals[r][slot])
    \/ \E r \in Receivers : \E i \in 1..Len(eventQueue[r]) : eventQueue[r][i].e = e
    \/ \E t \in CallerThreads : e \in StepNames(t).e
    \/ \E c \in called : c[1] = e
    \/ \E t \in CallerThreads : \E i \in 1..Len(frames[t]) : frames[t][i].e = e

ReceiverNamed(r) ==
    \/ ~receiverAlive[r]
    \/ \E e \in Emitters : r \in connectedKeys[e]
    \/ \E slot \in Slots : slotsToConnectedSignals[r][slot] # <<>>
    \/ eventQueue[r] # <<>>
    \/ \E t \in CallerThreads : r \in StepNames(t).r
    \/ \E c \in called : c[2] = r
    \/ \E t \in CallerThreads : \E i \in 1..Len(frames[t]) : frames[t][i].r = r
    \/ receiverThread[r] # MainThread

SlotNamed(slot) ==
    \/ \E e \in Emitters, r \in Receivers :
          \E i \in 1..Len(connectedSlots[e][r]) : connectedSlots[e][r][i].slot = slot
    \/ \E r \in Receivers : slotsToConnectedSignals[r][slot] # <<>>
    \/ \E r \in Receivers : \E i \in 1..Len(eventQueue[r]) : eventQueue[r][i].slot = slot
    \/ \E t \in CallerThreads : slot \in StepNames(t).slot
    \/ \E c \in called : c[3] = slot
    \/ \E t \in CallerThreads : \E i \in 1..Len(frames[t]) : frames[t][i].slot = slot

\* Emitters that are not named yet are interchangeable, and so are receivers
\* and slots: a call that names one of them names the lowest.
EmitterChoices ==
    {e \in Emitters : EmitterNamed(e) \/ \A x \in 1..(e - 1) : EmitterNamed(x)}

ReceiverChoices ==
    {r \in Receivers : ReceiverNamed(r) \/ \A x \in 1..(r - 1) : ReceiverNamed(x)}

SlotChoices ==
    {slot \in Slots : SlotNamed(slot) \/ \A x \in 1..(slot - 1) : SlotNamed(x)}

\* While no receiver is delivered to on its own thread, caller threads are
\* interchangeable: of the idle ones the lowest makes the next call.
LowestIdle(t) == \A u \in CallerThreads : u < t => callpc[u] # CallIdle

MayCall(t) ==
    /\ callpc[t] = CallIdle
    /\ callsMade < MaxCalls

CallStarts(t) ==
    /\ MayCall(t)
    /\ callsMade' = callsMade + 1

\* The running calls on a thread's stack: an operator() of emitter e (the
\* keys of connectedSlots it has yet to visit, the row (r, i) it invoked last,
\* and whether the container was changed under its iterators), a slot of r
\* run by callSlot (the signalSenders key it pushed on, the thread that waits
\* for it, the emission whose arguments it was given), and the wait of a
\* BlockingQueued invocation.
EmitFrame(e, n, keys, r, i, stale) ==
    [kind |-> "emit", e |-> e, n |-> n, keys |-> keys, r |-> r, i |-> i, slot |-> 0,
     key |-> 0, waiter |-> 0, stale |-> stale]

SlotFrame(e, r, slot, key, waiter, n) ==
    [kind |-> "slot", e |-> e, n |-> n, keys |-> <<>>, r |-> r, i |-> 0, slot |-> slot,
     key |-> key, waiter |-> waiter, stale |-> FALSE]

WaitFrame(e, r) ==
    [kind |-> "wait", e |-> e, n |-> 0, keys |-> <<>>, r |-> r, i |-> 0, slot |-> 0,
     key |-> 0, waiter |-> 0, stale |-> FALSE]

Top(t) == frames[t][Len(frames[t])]

Pop(stack) == SubSeq(stack, 1, Len(stack) - 1)

\* Thread t is in an operator() of emitter e (and holds its connectedSlotsMutex).
Traversing(stack, e) ==
    \E i \in 1..Len(stack) : stack[i].kind = "emit" /\ stack[i].e = e

\* Thread t runs code of the program: its top-level code or the body of a slot.
Runs(t) ==
    /\ callpc[t] = CallIdle
    /\ IF frames[t] = <<>> THEN TRUE ELSE Top(t).kind = "slot"

\* connectedSlots of e becomes rows with keys while thread t may be iterating
\* over it: the operator() calls of t whose current vector or whose map
\* changed hold invalidated iterators.
Invalidate(t, e, rows, keys) ==
    LET stack == frames[t]
    IN  [frames EXCEPT ![t] =
            [i \in 1..Len(stack) |->
                IF /\ stack[i].kind = "emit" /\ stack[i].e = e
                   /\ \/ keys # connectedKeys[e]
                      \/ stack[i].r # 0 /\ rows[stack[i].r] # connectedSlots[e][stack[i].r]
                THEN [stack[i] EXCEPT !.stale = TRUE]
                ELSE stack[i]]]

\* Variant of the lock that is not recursive.
MayLockPlain(holder, t) == holder = 0

\* QRecursiveMutex connectedSlotsMutex: thread t locks it without waiting if
\* it is free or t holds it already.
MayLock(holder, t) == holder \in {0, t}

\* Signal::registerSlot(context, f, connectionType): lock globalMutex.
RegisterSlot(t, e, r, slot, type) ==
    /\ CallStarts(t)
    /\ signalAlive[e] /\ receiverAlive[r]
    /\ globalMutex = 0
    /\ globalMutex' = t
    /\ callpc' = [callpc EXCEPT ![t] =
                     CallPc("registerSlot", <<LocalStep("append", e, slot, r, type)>>, <<>>)]
    /\ called' = {}
    /\ UNCHANGED <<connectedSlots, connectedKeys, slotsToConnectedSignals,
                   connectedSlotsMutex, signalAlive, receiverAlive, eventQueue>>
    /\ UNCHANGED <<wcVars, wVars, pVars, oVars, lastOp>>
    /\ UNCHANGED <<receiverThread, frames, signalSenders, emitsMade>>

\* registerSlot: connectionExists, and if not, the first half of
\* appendConnection (the row joins connectedSlots, connectedSlotsMutex is held).
AppendConnection(t) ==
    /\ callpc[t].op = "registerSlot"
    /\ Head(callpc[t].todo).on = "append"
    /\ LET step == Head(callpc[t].todo)
           e == step.target
           r == step.other
       IN  /\ MayLock(connectedSlotsMutex[e], t)
           /\ IF ConnectionExists(e, r, step.slot)
              THEN /\ globalMutex' = 0
                   /\ callpc' = [callpc EXCEPT ![t] = CallIdle]
                   /\ UNCHANGED <<connectedSlots, connectedKeys, connectedSlotsMutex, frames>>
              ELSE /\ connectedSlots' = [connectedSlots EXCEPT ![e][r] =
                                            Append(@, Row(step.slot, step.type))]
                   /\ connectedKeys' = [connectedKeys EXCEPT ![e] = @ \cup {r}]
                   /\ connectedSlotsMutex' = [connectedSlotsMutex EXCEPT ![e] = t]
                   /\ frames' = Invalidate(t, e,
                                    [connectedSlots[e] EXCEPT ![r] =
                                        Append(@, Row(step.slot, step.type))],
                                    connectedKeys[e] \cup {r})
                   /\ callpc' = [callpc EXCEPT ![t] =
                          CallPc("registerSlot",
                                 <<LocalStep("register", r, step.slot, e, step.type)>>, <<>>)]
                   /\ UNCHANGED globalMutex
    /\ called' = {}
    /\ UNCHANGED <<slotsToConnectedSignals, signalAlive, receiverAlive, eventQueue, callsMade>>
    /\ UNCHANGED <<wcVars, wVars, pVars, oVars, lastOp>>
    /\ UNCHANGED <<receiverThread, signalSenders, emitsMade>>

\* appendConnection, second half: slotProvider->registerConnection(slot, this);
\* both mutexes are released on return (connectedSlotsMutex is recursive: an
\* operator() of the same thread further out keeps it).
RegisterConnection(t) ==
    /\ callpc[t].op = "registerSlot"
    /\ Head(callpc[t].todo).on = "register"
    /\ LET step == Head(callpc[t].todo)
       IN  /\ slotsToConnectedSignals' =
                  [slotsToConnectedSignals EXCEPT ![step.target][step.slot] = Append(@, step.other)]
           /\ connectedSlotsMutex' =
                  [connectedSlotsMutex EXCEPT ![step.other] =
                      IF Traversing(frames[t], step.other) THEN t ELSE 0]
    /\ globalMutex' = 0
    /\ callpc' = [callpc EXCEPT ![t] = CallIdle]
    /\ called' = {}
    /\ UNCHANGED <<connectedSlots, connectedKeys, signalAlive, receiverAlive, eventQueue, callsMade>>
    /\ UNCHANGED <<wcVars, wVars, pVars, oVars, lastOp>>
    /\ UNCHANGED <<receiverThread, frames, signalSenders, emitsMade>>

\* SlotProvider::disconnect(slot, signalProvider, slotProvider) with both
\* providers null: returns at once, as any call returns.
DisconnectNothing(t, slot) ==
    /\ CallStarts(t)
    /\ called' = {<<0, 0, slot>>}
    /\ UNCHANGED <<connectedSlots, connectedKeys, slotsToConnectedSignals, globalMutex,
                   connectedSlotsMutex, callpc, signalAlive, receiverAlive, eventQueue>>
    /\ UNCHANGED <<wcVars, wVars, pVars, oVars, lastOp>>
    /\ UNCHANGED <<receiverThread, frames, signalSenders, emitsMade>>

\* SlotProvider::disconnect: lock globalMutex; the local calls to make are
\* fixed once the loop over getConnectedSignals() / getConnectedSlots() starts.
\* dying names the endpoint whose destructor makes the call, if any.
DisconnectBegins(t, slot, signalProvider, slotProvider, dying) ==
    /\ CallStarts(t)
    /\ signalProvider # 0 => signalAlive[signalProvider]
    /\ slotProvider # 0 => receiverAlive[slotProvider]
    /\ globalMutex = 0
    /\ globalMutex' = t
    /\ \E plan \in DisconnectPlans(slot, signalProvider, slotProvider) :
          callpc' = [callpc EXCEPT ![t] = CallPc("disconnect", plan, dying)]
    /\ called' = {}
    /\ UNCHANGED <<connectedSlots, connectedKeys, slotsToConnectedSignals,
                   connectedSlotsMutex, signalAlive, receiverAlive, eventQueue>>
    /\ UNCHANGED <<wcVars, wVars, pVars, oVars, lastOp>>
    /\ UNCHANGED <<receiverThread, frames, signalSenders, emitsMade>>

Disconnect(t, slot, signalProvider, slotProvider) ==
    /\ signalProvider # 0 \/ slotProvider # 0
    /\ DisconnectBegins(t, slot, signalProvider, slotProvider, <<>>)

\* ~Signal: disconnect(nullptr, this, nullptr)
DestroySignal(t, e) ==
    /\ signalAlive[e]
    /\ DisconnectBegins(t, 0, e, 0, <<"signal", e>>)

\* ~SlotProvider: disconnect(nullptr, nullptr, this)
DestroyReceiver(t, r) ==
    /\ receiverAlive[r]
    /\ DisconnectBegins(t, 0, 0, r, <<"receiver", r>>)

\* The return of the disconnect call: globalMutex is unlocked; if a
\* destructor made the call, the endpoint is gone, and the events still
\* posted to a destroyed receiver are removed with it (~QObject).
DisconnectReturns(t, last) ==
    IF last
    THEN /\ globalMutex' = 0
         /\ signalAlive' = [e \in Emitters |->
                               signalAlive[e] /\ callpc[t].dying # <<"signal", e>>]
         /\ receiverAlive' = [r \in Receivers |->
                                 receiverAlive[r] /\ callpc[t].dying # <<"receiver", r>>]
         /\ eventQueue' = [r \in Receivers |->
                              IF callpc[t].dying = <<"receiver", r>> THEN <<>> ELSE eventQueue[r]]
         /\ callpc' = [callpc EXCEPT ![t] = CallIdle]
    ELSE /\ callpc' = [callpc EXCEPT ![t].todo = Tail(@)]
         /\ UNCHANGED <<globalMutex, signalAlive, receiverAlive, eventQueue>>

\* One local call of disconnect: disconnectLocalInSignal on an emitter
\* (which locks its connectedSlotsMutex) or disconnectLocalInSlotProvider on a
\* receiver.  A call on an endpoint that was destroyed is a use of a dangling
\* pointer: it may pass without effect or stop the thread for good.
DisconnectLocal(t) ==
    /\ callpc[t].op = "disconnect"
    /\ LET step == Head(callpc[t].todo)
           last == Len(callpc[t].todo) = 1
       IN  \/ /\ step.on = "signal"
              /\ signalAlive[step.target]
              /\ MayLock(connectedSlotsMutex[step.target], t)
              /\ LET new == DisconnectLocalInSignal(step.target, step.slot, step.other)
                 IN  /\ connectedSlots' = [connectedSlots EXCEPT ![step.target] = new.rows]
                     /\ connectedKeys' = [connectedKeys EXCEPT ![step.target] = new.keys]
                     /\ frames' = Invalidate(t, step.target, new.rows, new.keys)
              /\ DisconnectReturns(t, last)
              /\ UNCHANGED slotsToConnectedSignals
           \/ /\ step.on = "slots"
              /\ receiverAlive[step.target]
              /\ slotsToConnectedSignals' =
                     [slotsToConnectedSignals EXCEPT ![step.target] =
                         DisconnectLocalInSlotProvider(step.target, step.slot, step.other)]
              /\ DisconnectReturns(t, last)
              /\ UNCHANGED <<connectedSlots, connectedKeys, frames>>
           \/ /\ \/ step.on = "signal" /\ ~signalAlive[step.target]
                 \/ step.on = "slots" /\ ~receiverAlive[step.target]
              /\ \/ DisconnectReturns(t, last)
                 \/ /\ callpc' = [callpc EXCEPT ![t].op = "crashed"]
                    /\ UNCHANGED <<globalMutex, signalAlive, receiverAlive, eventQueue>>
              /\ UNCHANGED <<connectedSlots, connectedKeys, slotsToConnectedSignals, frames>>
    /\ called' = {}
    /\ UNCHANGED <<connectedSlotsMutex, callsMade>>
    /\ UNCHANGED <<wcVars, wVars, pVars, oVars, lastOp>>
    /\ UNCHANGED <<receiverThread, signalSenders, emitsMade>>

\* The closure a queued invoker posts: callSlot with the emitter as
\* signalSender and the slot; n numbers the emission it belongs to.
Closure(e, slot, n) == [e |-> e, slot |-> slot, n |-> n]

\* The closures an emission posts to receiver r: one per row with a queued
\* connection, in vector order.
RECURSIVE QueuedRows(_, _, _)
QueuedRows(e, r, rows) ==
    IF rows = <<>> THEN <<>>
    ELSE (IF Head(rows).type = "queued"
          THEN <<Closure(e, Head(rows).slot, callsMade + 1)>> ELSE <<>>)
         \o QueuedRows(e, r, Tail(rows))

\* Variant of the posting that puts new closures in front of waiting ones.
PostAtFront(queue, closures) == closures \o queue

\* QMetaObject::invokeMethod with a queued connection: the closures join the
\* end of the receiver's event queue.
Post(queue, closures) == queue \o closures

\* The slots of receiver r an emission of e runs on the emitting thread.
DirectRows(e, r) ==
    {<<e, r, connectedSlots[e][r][i].slot>> :
        i \in {j \in 1..Len(connectedSlots[e][r]) : connectedSlots[e][r][j].type = "direct"}}

\* Signal::operator(): with connectedSlotsMutex locked, every invoker of
\* every vector is called: a direct connection runs the slot on the emitting
\* thread, a queued one posts callSlot to the receiver's thread.  No thread
\* emits a signal whose destructor has begun.
Emit(t, e) ==
    /\ CallStarts(t)
    /\ signalAlive[e]
    /\ \A u \in CallerThreads : callpc[u].dying # <<"signal", e>>
    /\ connectedSlotsMutex[e] = 0
    /\ called' = {<<e, 0, 0>>} \cup UNION {DirectRows(e, r) : r \in Receivers}
    /\ eventQueue' = [r \in Receivers |->
                         Post(eventQueue[r], QueuedRows(e, r, connectedSlots[e][r]))]
    /\ UNCHANGED <<connectedSlots, connectedKeys, slotsToConnectedSignals, globalMutex,
                   connectedSlotsMutex, callpc, signalAlive, receiverAlive>>
    /\ UNCHANGED <<wcVars, wVars, pVars, oVars, lastOp>>
    /\ UNCHANGED <<receiverThread, frames, signalSenders, emitsMade>>

\* The receiver's event loop runs the closure at the head of its queue:
\* callSlot(signalSender, f, args) invokes the slot.
RunClosure(r) ==
    /\ receiverAlive[r]
    /\ eventQueue[r] # <<>>
    /\ called' = {<<Head(eventQueue[r]).e, r, Head(eventQueue[r]).slot>>}
    /\ eventQueue' = [eventQueue EXCEPT ![r] = Tail(@)]
    /\ UNCHANGED <<connectedSlots, connectedKeys, slotsToConnectedSignals, globalMutex,
                   connectedSlotsMutex, callpc, signalAlive, receiverAlive, callsMade>>
    /\ UNCHANGED <<wcVars, wVars, pVars, oVars, lastOp>>
    /\ UNCHANGED <<receiverThread, frames, signalSenders, emitsMade>>

SignalNext ==
    \/ \E t \in CallerThreads :
          /\ LowestIdle(t) /\ MayCall(t)
          /\ LET receivers == ReceiverChoices
                 slots == SlotChoices
             IN  \E e \in EmitterChoices, r \in receivers, slot \in slots,
                    type \in ConnectionTypes : RegisterSlot(t, e, r, slot, type)
    \/ \E t \in CallerThreads :
          /\ LowestIdle(t) /\ MayCall(t)
          /\ \E slot \in SlotChoices \cup {0} : DisconnectNothing(t, slot)
    \/ \E t \in CallerThreads :
          /\ LowestIdle(t) /\ MayCall(t)
          /\ LET emitters == EmitterChoices \cup {0}
                 receivers == ReceiverChoices \cup {0}
             IN  \E slot \in SlotChoices \cup {0}, e \in emitters, r \in receivers :
                    Disconnect(t, slot, e, r)
    \/ \E t \in CallerThreads : LowestIdle(t) /\ MayCall(t) /\ \E e \in EmitterChoices : DestroySignal(t, e)
    \/ \E t \in CallerThreads : LowestIdle(t) /\ MayCall(t) /\ \E r \in ReceiverChoices : DestroyReceiver(t, r)
    \/ \E t \in CallerThreads : LowestIdle(t) /\ MayCall(t) /\ \E e \in EmitterChoices : Emit(t, e)
    \/ \E t \in CallerThreads : AppendConnection(t)
    \/ \E t \in CallerThreads : RegisterConnection(t)
    \/ \E t \in CallerThreads : DisconnectLocal(t)
    \/ \E r \in Receivers : RunClosure(r)

\* No pool is built: the WorkerController is constructed with zero threads.
SignalInit == Init /\ threads = <<>>

SignalSpec == SignalInit /\ [][SignalNext]_vars

\* The signal layer once a first registerSlot has returned: emitter 1 is
\* connected to slot 1 of receiver 1.
ConnectedInit ==
    \E type \in ConnectionTypes :
        /\ tasks = <<>>
        /\ threads = <<>>
        /\ workersReady = {}
        /\ isInDestructor = FALSE
        /\ wcQueue = <<>>
        /\ wcmode = "loop"
        /\ wcop = IdleOp
        /\ nextUuid = 1
        /\ wstatus = [u \in Uuids |-> "none"]
        /\ wqueue = [u \in Uuids |-> <<>>]
        /\ wpc = [u \in Uuids |-> "idle"]
        /\ wtask = [u \in Uuids |-> 0]
        /\ wbound = [u \in Uuids |-> FALSE]
        /\ wid = [u \in Uuids |-> 0]
        /\ procQueue = <<>>
        /\ procpc = "idle"
        /\ procBound = TRUE
        /\ procQuit = FALSE
        /\ delivered = [t \in Tasks |-> 0]
        /\ nextTask = 1
        /\ dispatchLog = <<>>
        /\ lastOp = "none"
        /\ connectedSlots = [e \in Emitters |-> [r \in Receivers |->
                                 IF e = 1 /\ r = 1 THEN <<Row(1, type)>> ELSE <<>>]]
        /\ connectedKeys = [e \in Emitters |-> IF e = 1 THEN {1} ELSE {}]
        /\ slotsToConnectedSignals = [r \in Receivers |-> [s \in Slots |->
                                          IF r = 1 /\ s = 1 THEN <<1>> ELSE <<>>]]
        /\ globalMutex = 0
        /\ connectedSlotsMutex = [e \in Emitters |-> 0]
        /\ callpc = [t \in CallerThreads |-> CallIdle]
        /\ signalAlive = [e \in Emitters |-> TRUE]
        /\ receiverAlive = [r \in Receivers |-> TRUE]
        /\ eventQueue = [r \in Receivers |-> <<>>]
        /\ called = {}
        /\ callsMade = 0
        /\ receiverThread = [r \in Receivers |-> MainThread]
        /\ frames = [t \in CallerThreads |-> <<>>]
        /\ signalSenders = [r \in Receivers |-> [t \in CallerThreads |-> <<>>]]
        /\ emitsMade = 0

ConnectedSpec == ConnectedInit /\ [][SignalNext]_vars

-----------------------------------------------------------------------------
\* Delivery: an emission taken one invoker at a time, on threads that the
\* receivers live on.  A thread with nothing running is in its event loop.
\* The runs are those of the examples: the main thread makes connections and
\* the receivers are moved to their threads before the first emission; then
\* the threads emit, and the slots ask for their sender, emit, connect and
\* disconnect.

\* QObject::moveToThread, called on the thread the receiver lives on.  The
\* events posted to the receiver move with it.
MoveToThread(t, r, target) ==
    /\ Runs(t)
    /\ CallStarts(t)
    /\ receiverAlive[r]
    /\ receiverThread[r] = t
    /\ target # t
    /\ receiverThread' = [receiverThread EXCEPT ![r] = target]
    /\ called' = {}
    /\ UNCHANGED <<connectedSlots, connectedKeys, slotsToConnectedSignals, globalMutex,
                   connectedSlotsMutex, callpc, signalAlive, receiverAlive, eventQueue>>
    /\ UNCHANGED <<frames, signalSenders, emitsMade>>
    /\ UNCHANGED <<wcVars, wVars, pVars, oVars, lastOp>>

\* Signal::operator(), entry: connectedSlotsMutex (recursive) is locked and
\* the iteration over connectedSlots starts, in some order of its keys.
OperatorBegins(t, e) ==
    /\ Runs(t)
    /\ emitsMade < MaxEmits
    /\ signalAlive[e]
    /\ MayLock(connectedSlotsMutex[e], t)
    /\ connectedSlotsMutex' = [connectedSlotsMutex EXCEPT ![e] = t]
    /\ \E keys \in Orders(connectedKeys[e]) :
          frames' = [frames EXCEPT ![t] =
                        Append(@, EmitFrame(e, emitsMade + 1, keys, 0, 0, FALSE))]
    /\ emitsMade' = emitsMade + 1
    /\ called' = {<<e, 0, 0>>}
    /\ UNCHANGED <<connectedSlots, connectedKeys, slotsToConnectedSignals, globalMutex,
                   callpc, signalAlive, receiverAlive, eventQueue, callsMade>>
    /\ UNCHANGED <<receiverThread, signalSenders>>
    /\ UNCHANGED <<wcVars, wVars, pVars, oVars, lastOp>>

\* The row the two loops of operator() reach after row i of receiver r, with
\* keys still to visit; r = 0 when the loops are over.
RECURSIVE NextRow(_, _, _, _)
NextRow(e, r, i, keys) ==
    IF r # 0 /\ i < Len(connectedSlots[e][r]) THEN [r |-> r, i |-> i + 1, keys |-> keys]
    ELSE IF keys = <<>> THEN [r |-> 0, i |-> 0, keys |-> <<>>]
    ELSE NextRow(e, Head(keys), 0, Tail(keys))

\* Variant of the invocation that fixes Auto by the thread the receiver was
\* constructed on.
InvokeInContextAtConstruction(connectionType, currentThread, contextThread) ==
    IF connectionType = "direct" \/ (connectionType = "auto" /\ currentThread = MainThread)
    THEN "direct"
    ELSE IF connectionType = "blocking" THEN "blocking"
    ELSE "queued"

\* invokeInContext: how QMetaObject::invokeMethod delivers.  Direct, and Auto
\* with the current thread being the context's thread, run the callable at
\* once; BlockingQueued posts it and waits; anything else posts it.
InvokeInContext(connectionType, currentThread, contextThread) ==
    IF connectionType = "direct" \/ (connectionType = "auto" /\ currentThread = contextThread)
    THEN "direct"
    ELSE IF connectionType = "blocking" THEN "blocking"
    ELSE "queued"

\* The closure of a BlockingQueued invocation carries the semaphore its
\* caller waits on.
Waited(closure, waiter) == closure @@ [waiter |-> waiter]

\* Variant of callSlot that puts the emitter at the front of the deque.
PushSenderAtFront(r, e) ==
    [signalSenders EXCEPT ![r][receiverThread[r]] = <<e>> \o @]

\* SlotProvider::callSlot, entry: the emitter joins the back of the deque
\* under the receiver's thread().
PushSender(r, e) ==
    [signalSenders EXCEPT ![r][receiverThread[r]] = Append(@, e)]

\* One invoker of operator(): the next row's slot is delivered through
\* invokeInContext.
Invoke(t) ==
    /\ frames[t] # <<>>
    /\ Top(t).kind = "emit"
    /\ LET f == Top(t)
           next == NextRow(f.e, f.r, f.i, f.keys)
       IN  /\ next.r # 0
           /\ LET r == next.r
                  row == connectedSlots[f.e][r][next.i]
                  here == EmitFrame(f.e, f.n, next.keys, r, next.i, f.stale)
                  how == InvokeInContext(row.type, t, receiverThread[r])
              IN  \/ /\ how = "direct"
                     /\ signalSenders' = PushSender(r, f.e)
                     /\ frames' = [frames EXCEPT ![t] =
                                      Append(Append(Pop(@), here),
                                             SlotFrame(f.e, r, row.slot, receiverThread[r], 0, f.n))]
                     /\ called' = {<<f.e, r, row.slot>>}
                     /\ UNCHANGED eventQueue
                  \/ /\ how = "queued"
                     /\ eventQueue' = [eventQueue EXCEPT ![r] =
                                          Post(@, <<Waited(Closure(f.e, row.slot, f.n), 0)>>)]
                     /\ frames' = [frames EXCEPT ![t] = Append(Pop(@), here)]
                     /\ called' = {}
                     /\ UNCHANGED signalSenders
                  \/ /\ how = "blocking"
                     /\ eventQueue' = [eventQueue EXCEPT ![r] =
                                          Post(@, <<Waited(Closure(f.e, row.slot, f.n), t)>>)]
                     /\ frames' = [frames EXCEPT ![t] =
                                      Append(Append(Pop(@), here), WaitFrame(f.e, r))]
                     /\ called' = {}
                     /\ UNCHANGED signalSenders
    /\ UNCHANGED <<connectedSlots, connectedKeys, slotsToConnectedSignals, globalMutex,
                   connectedSlotsMutex, callpc, signalAlive, receiverAlive, callsMade>>
    /\ UNCHANGED <<receiverThread, emitsMade>>
    /\ UNCHANGED <<wcVars, wVars, pVars, oVars, lastOp>>

\* Signal::operator(), return: the loops are over (or, the iterators being
\* invalid, found over) and the locker releases connectedSlotsMutex once.
OperatorReturns(t) ==
    /\ frames[t] # <<>>
    /\ Top(t).kind = "emit"
    /\ LET f == Top(t)
       IN  /\ f.stale \/ NextRow(f.e, f.r, f.i, f.keys).r = 0
           /\ frames' = [frames EXCEPT ![t] = Pop(@)]
           /\ connectedSlotsMutex' =
                  [connectedSlotsMutex EXCEPT ![f.e] =
                      IF Traversing(Pop(frames[t]), f.e) THEN t ELSE 0]
    /\ called' = {}
    /\ UNCHANGED <<connectedSlots, connectedKeys, slotsToConnectedSignals, globalMutex,
                   callpc, signalAlive, receiverAlive, eventQueue, callsMade>>
    /\ UNCHANGED <<receiverThread, signalSenders, emitsMade>>
    /\ UNCHANGED <<wcVars, wVars, pVars, oVars, lastOp>>

\* Signal::operator() going on with invalidated iterators may also stop the
\* thread for good, connectedSlotsMutex still locked.
OperatorCrashes(t) ==
    /\ frames[t] # <<>>
    /\ Top(t).kind = "emit"
    /\ Top(t).stale
    /\ callpc' = [callpc EXCEPT ![t].op = "crashed"]
    /\ called' = {}
    /\ UNCHANGED <<connectedSlots, connectedKeys, slotsToConnectedSignals, globalMutex,
                   connectedSlotsMutex, signalAlive, receiverAlive, eventQueue, callsMade>>
    /\ UNCHANGED <<receiverThread, frames, signalSenders, emitsMade>>
    /\ UNCHANGED <<wcVars, wVars, pVars, oVars, lastOp>>

\* The event loop of the receiver's thread runs the closure at the head of
\* the receiver's queue: callSlot pushes the emitter and invokes the slot.
RunPosted(t, r) ==
    /\ callpc[t] = CallIdle
    /\ frames[t] = <<>>
    /\ receiverAlive[r]
    /\ receiverThread[r] = t
    /\ eventQueue[r] # <<>>
    /\ LET closure == Head(eventQueue[r])
       IN  /\ signalSenders' = PushSender(r, closure.e)
           /\ frames' = [frames EXCEPT ![t] =
                            <<SlotFrame(closure.e, r, closure.slot, receiverThread[r],
                                        closure.waiter, closure.n)>>]
           /\ called' = {<<closure.e, r, closure.slot>>}
    /\ eventQueue' = [eventQueue EXCEPT ![r] = Tail(@)]
    /\ UNCHANGED <<connectedSlots, connectedKeys, slotsToConnectedSignals, globalMutex,
                   connectedSlotsMutex, callpc, signalAlive, receiverAlive, callsMade>>
    /\ UNCHANGED <<receiverThread, emitsMade>>
    /\ UNCHANGED <<wcVars, wVars, pVars, oVars, lastOp>>

\* SlotProvider::signalSender(): the back of the deque under the receiver's
\* thread(), nullptr (0) if there is none.
SignalSender(r) ==
    LET queue == signalSenders[r][receiverThread[r]]
    IN  IF queue = <<>> THEN 0 ELSE queue[Len(queue)]

\* The emitters whose slot of receiver r is running on some thread
RunningFor(r) ==
    UNION {{frames[t][i].e : i \in {j \in 1..Len(frames[t]) :
                                        frames[t][j].kind = "slot" /\ frames[t][j].r = r}} :
           t \in CallerThreads}

\* SlotProvider::callSlot, exit: the slot returned; pop_back on the deque the
\* emitter was pushed on, and the semaphore of a BlockingQueued caller is
\* released.
SlotReturns(t) ==
    /\ callpc[t] = CallIdle
    /\ frames[t] # <<>>
    /\ Top(t).kind = "slot"
    /\ LET f == Top(t)
       IN  /\ signalSenders' = [signalSenders EXCEPT ![f.r][f.key] = Pop(@)]
           /\ frames' = [u \in CallerThreads |->
                            IF u = t THEN Pop(frames[t])
                            ELSE IF u = f.waiter THEN Pop(frames[u])
                            ELSE frames[u]]
    /\ called' = {}
    /\ UNCHANGED <<connectedSlots, connectedKeys, slotsToConnectedSignals, globalMutex,
                   connectedSlotsMutex, callpc, signalAlive, receiverAlive, eventQueue,
                   callsMade>>
    /\ UNCHANGED <<receiverThread, emitsMade>>
    /\ UNCHANGED <<wcVars, wVars, pVars, oVars, lastOp>>

\* The main thread's code before the first emission
Setup(t) ==
    /\ frames[t] = <<>>
    /\ t = MainThread
    /\ emitsMade = 0
    /\ callsMade < MaxSetup

\* The calls of the setup have returned.
SetupOver == \A t \in CallerThreads : frames[t] = <<>> => callpc[t] = CallIdle

\* The runs whose connections are of the given types
DeliveryWith(types) ==
    \/ \E t \in CallerThreads :
          /\ Setup(t) /\ MayCall(t)
          /\ LET receivers == ReceiverChoices
                 slots == SlotChoices
             IN  \E e \in EmitterChoices, r \in receivers, slot \in slots,
                    type \in types : RegisterSlot(t, e, r, slot, type)
    \/ \E t \in CallerThreads :
          /\ Setup(t) /\ MayCall(t)
          /\ \E r \in ReceiverChoices, target \in CallerThreads : MoveToThread(t, r, target)
    \/ \E t \in CallerThreads :
          /\ Runs(t) /\ emitsMade < MaxEmits /\ SetupOver
          /\ \E e \in EmitterChoices : OperatorBegins(t, e)
    \/ \E t \in CallerThreads : AppendConnection(t)
    \/ \E t \in CallerThreads : RegisterConnection(t)
    \/ \E t \in CallerThreads : Invoke(t)
    \/ \E t \in CallerThreads : OperatorReturns(t)
    \/ \E t \in CallerThreads, r \in Receivers : RunPosted(t, r)
    \/ \E t \in CallerThreads : SlotReturns(t)

DeliveryNext == DeliveryWith(DeliveryTypes)

DeliverySpec == SignalInit /\ [][DeliveryNext]_vars

\* Runs whose connections are all made with Qt::AutoConnection
AutoNext == DeliveryWith({"auto"})

AutoSpec == SignalInit /\ [][AutoNext]_vars

\* Runs with Direct and Queued connections, and slots that also connect and
\* disconnect.
NestedNext ==
    \/ DeliveryWith(ConnectionTypes)
    \/ \E t \in CallerThreads :
          /\ Runs(t) /\ MayCall(t)
          /\ frames[t] # <<>>
          /\ LET receivers == ReceiverChoices
                 slots == SlotChoices
             IN  \E e \in EmitterChoices, r \in receivers, slot \in slots,
                    type \in ConnectionTypes : RegisterSlot(t, e, r, slot, type)
    \/ \E t \in CallerThreads :
          /\ Runs(t) /\ MayCall(t)
          /\ frames[t] # <<>>
          /\ LET emitters == EmitterChoices \cup {0}
                 receivers == ReceiverChoices \cup {0}
             IN  \E slot \in SlotChoices \cup {0}, e \in emitters, r \in receivers :
                    Disconnect(t, slot, e, r)
    \/ \E t \in CallerThreads : DisconnectLocal(t)
    \/ \E t \in CallerThreads : OperatorCrashes(t)

NestedSpec == SignalInit /\ [][NestedNext]_vars

-----------------------------------------------------------------------------
\* Emission against registry mutation.  The connections are made with
\* Qt::BlockingQueuedConnection; once the setup is over the threads emit,
\* and the threads other than the main thread also connect, disconnect and
\* destroy endpoints from their top-level code.

BlockingNext ==
    \/ DeliveryWith({"blocking"})
    \/ \E t \in CallerThreads \ {MainThread} :
          /\ frames[t] = <<>> /\ MayCall(t) /\ emitsMade > 0
          /\ \E e \in EmitterChoices, r \in ReceiverChoices, slot \in SlotChoices :
                RegisterSlot(t, e, r, slot, "blocking")
    \/ \E t \in CallerThreads \ {MainThread} :
          /\ frames[t] = <<>> /\ MayCall(t) /\ emitsMade > 0
          /\ \E slot \in SlotChoices \cup {0}, e \in EmitterChoices \cup {0},
                r \in ReceiverChoices \cup {0} : Disconnect(t, slot, e, r)
    \/ \E t \in CallerThreads \ {MainThread} :
          /\ frames[t] = <<>> /\ MayCall(t) /\ emitsMade > 0
          /\ \E e \in EmitterChoices : DestroySignal(t, e)
    \/ \E t \in CallerThreads \ {MainThread} :
          /\ frames[t] = <<>> /\ MayCall(t) /\ emitsMade > 0
          /\ \E r \in ReceiverChoices : DestroyReceiver(t, r)
    \/ \E t \in CallerThreads : DisconnectLocal(t)

BlockingSpec == SignalInit /\ [][BlockingNext]_vars

-----------------------------------------------------------------------------
\* Chained signals.  A Signal is a SlotProvider too, and toSlot() names its
\* operator() as a slot: e.registerSlot(&e2, e2.toSlot(), type) makes an
\* emission of e emit e2 with the same arguments.  In these runs the Signal
\* ChainedSignal is also the receiver of that number, and ToSlot is the slot
\* toSlot() returns; the other receivers are plain SlotProviders.  Every
\* receiver lives on the main thread.  The threads emit the other signals
\* from their top-level code, and the main thread disconnects rows of
\* ChainedSignal.

ChainedSignal == MaxEndpoints

ToSlot == MaxSlots

\* The slot of the plain receivers that ChainedSignal is connected to
ChainedSlot == 1

\* Variant of toSlot() whose operator() finds no rows.
ToSlotEmissionOver(e, n, keys) == EmitFrame(e, n, <<>>, 0, 0, FALSE)

\* The operator() that runs as the slot toSlot() names: it is given the
\* arguments the slot was called with.
ToSlotEmission(e, n, keys) == EmitFrame(e, n, keys, 0, 0, FALSE)

\* The slot on top of thread t's stack is toSlot() of ChainedSignal and has
\* yet to call operator().
ChainPending(t) ==
    IF frames[t] = <<>> THEN FALSE
    ELSE /\ Top(t).kind = "slot"
         /\ Top(t).r = ChainedSignal
         /\ Top(t).slot = ToSlot
         /\ Top(t).i = 0

\* callSlot has invoked toSlot() of ChainedSignal: its operator() begins,
\* locking connectedSlotsMutex, inside the slot.
ChainedBegins(t) ==
    /\ callpc[t] = CallIdle
    /\ ChainPending(t)
    /\ signalAlive[ChainedSignal]
    /\ MayLock(connectedSlotsMutex[ChainedSignal], t)
    /\ connectedSlotsMutex' = [connectedSlotsMutex EXCEPT ![ChainedSignal] = t]
    /\ \E keys \in Orders(connectedKeys[ChainedSignal]) :
          frames' = [frames EXCEPT ![t] =
                        Append(Append(Pop(@), [Top(t) EXCEPT !.i = 1]),
                               ToSlotEmission(ChainedSignal, Top(t).n, keys))]
    /\ called' = {<<ChainedSignal, 0, 0>>}
    /\ UNCHANGED <<connectedSlots, connectedKeys, slotsToConnectedSignals, globalMutex,
                   callpc, signalAlive, receiverAlive, eventQueue, callsMade>>
    /\ UNCHANGED <<receiverThread, signalSenders, emitsMade>>
    /\ UNCHANGED <<wcVars, wVars, pVars, oVars, lastOp>>

\* The chain once the registerSlot calls of the main thread have returned:
\* every other signal is connected to toSlot() of ChainedSignal, and
\* ChainedSignal to the first slot of every plain receiver, all with
\* Qt::AutoConnection.
ChainInit ==
    /\ tasks = <<>>
    /\ threads = <<>>
    /\ workersReady = {}
    /\ isInDestructor = FALSE
    /\ wcQueue = <<>>
    /\ wcmode = "loop"
    /\ wcop = IdleOp
    /\ nextUuid = 1
    /\ wstatus = [u \in Uuids |-> "none"]
    /\ wqueue = [u \in Uuids |-> <<>>]
    /\ wpc = [u \in Uuids |-> "idle"]
    /\ wtask = [u \in Uuids |-> 0]
    /\ wbound = [u \in Uuids |-> FALSE]
    /\ wid = [u \in Uuids |-> 0]
    /\ procQueue = <<>>
    /\ procpc = "idle"
    /\ procBound = TRUE
    /\ procQuit = FALSE
    /\ delivered = [t \in Tasks |-> 0]
    /\ nextTask = 1
    /\ dispatchLog = <<>>
    /\ lastOp = "none"
    /\ connectedSlots = [e \in Emitters |-> [r \in Receivers |->
                             IF e # ChainedSignal /\ r = ChainedSignal
                             THEN <<Row(ToSlot, "auto")>>
                             ELSE IF e = ChainedSignal /\ r # ChainedSignal
                             THEN <<Row(ChainedSlot, "auto")>>
                             ELSE <<>>]]
    /\ connectedKeys = [e \in Emitters |->
                            IF e = ChainedSignal THEN Receivers \ {ChainedSignal}
                            ELSE {ChainedSignal}]
    /\ slotsToConnectedSignals = [r \in Receivers |-> [s \in Slots |->
                                      IF r = ChainedSignal /\ s = ToSlot
                                      THEN [i \in 1..(MaxEndpoints - 1) |-> i]
                                      ELSE IF r # ChainedSignal /\ s = ChainedSlot
                                      THEN <<ChainedSignal>>
                                      ELSE <<>>]]
    /\ globalMutex = 0
    /\ connectedSlotsMutex = [e \in Emitters |-> 0]
    /\ callpc = [t \in CallerThreads |-> CallIdle]
    /\ signalAlive = [e \in Emitters |-> TRUE]
    /\ receiverAlive = [r \in Receivers |-> TRUE]
    /\ eventQueue = [r \in Receivers |-> <<>>]
    /\ called = {}
    /\ callsMade = 0
    /\ receiverThread = [r \in Receivers |-> MainThread]
    /\ frames = [t \in CallerThreads |-> <<>>]
    /\ signalSenders = [r \in Receivers |-> [t \in CallerThreads |-> <<>>]]
    /\ emitsMade = 0

ChainNext ==
    \/ \E t \in CallerThreads :
          /\ t = MainThread /\ frames[t] = <<>> /\ MayCall(t)
          /\ \E slot \in Slots \cup {0}, r \in Receivers \cup {0} :
                Disconnect(t, slot, ChainedSignal, r)
    \/ \E t \in CallerThreads :
          /\ frames[t] = <<>> /\ callpc[t] = CallIdle /\ emitsMade < MaxEmits
          /\ \E e \in Emitters \ {ChainedSignal} : OperatorBegins(t, e)
    \/ \E t \in CallerThreads : DisconnectLocal(t)
    \/ \E t \in CallerThreads : Invoke(t)
    \/ \E t \in CallerThreads : ChainedBegins(t)
    \/ \E t \in CallerThreads : OperatorReturns(t)
    \/ \E t \in CallerThreads, r \in Receivers : RunPosted(t, r)
    \/ \E t \in CallerThreads : ~ChainPending(t) /\ SlotReturns(t)

ChainSpec == ChainInit /\ [][ChainNext]_vars

-----------------------------------------------------------------------------
\* Resume runs: the pool is built with zero threads, the Processor calls
\* extendQueue at will and setNumberOfThreads(n), n >= 1, once; no
\* clearQueue, no further resize, no destruction.  Every event loop goes on
\* running the closures posted to it and fulfillTask returns, hence the weak
\* fairness of the handler steps.

ResumeInit == Init /\ threads = <<>>

ResumeNext ==
    \/ \E n \in 1..MaxThreads : threads = <<>> /\ ProcSetNumberOfThreads(n)
    \/ \E k \in 1..MaxBatch : ProcExtendQueue(k)
    \/ ProcReceiveResult
    \/ \E u \in Uuids : WorkerReceiveTask(u)
    \/ \E u \in Uuids : WorkerPostResult(u)
    \/ \E u \in Uuids : WorkerPostReady(u)
    \/ WcWorkerFinished
    \/ WcExtendQueue
    \/ WcSetThreadsGrow

ResumeFairness ==
    /\ WF_vars(ProcReceiveResult)
    /\ \A u \in Uuids : WF_vars(WorkerReceiveTask(u))
    /\ \A u \in Uuids : WF_vars(WorkerPostResult(u))
    /\ \A u \in Uuids : WF_vars(WorkerPostReady(u))
    /\ WF_vars(WcWorkerFinished)
    /\ WF_vars(WcExtendQueue)
    /\ WF_vars(WcSetThreadsGrow)

ResumeSpec == ResumeInit /\ [][ResumeNext]_vars /\ ResumeFairness

-----------------------------------------------------------------------------
\* Retirement runs: the pool is built with at least one worker, the Processor
\* calls extendQueue at will and setNumberOfThreads(n) with n below the
\* current count (shrink or zero); no clearQueue, no growth, no destruction.
\* Every event loop goes on running the closures posted to it, fulfillTask
\* returns, a thread told to quit finishes and wait() returns, hence the weak
\* fairness of these steps.

RetireNext ==
    \/ \E n \in 0..MaxThreads : n < Len(threads) /\ ProcSetNumberOfThreads(n)
    \/ \E k \in 1..MaxBatch : ProcExtendQueue(k)
    \/ ProcReceiveResult
    \/ \E u \in Uuids : WorkerReceiveTask(u)
    \/ \E u \in Uuids : WorkerPostResult(u)
    \/ \E u \in Uuids : WorkerPostReady(u)
    \/ \E u \in Uuids : WorkerExit(u)
    \/ WcWorkerFinished
    \/ WcExtendQueue
    \/ WcSetThreadsZero
    \/ WcZeroJoin
    \/ WcSetThreadsShrink
    \/ WcShrinkJoin

RetireFairness ==
    /\ WF_vars(ProcReceiveResult)
    /\ \A u \in Uuids : WF_vars(WorkerReceiveTask(u))
    /\ \A u \in Uuids : WF_vars(WorkerPostResult(u))
    /\ \A u \in Uuids : WF_vars(WorkerPostReady(u))
    /\ \A u \in Uuids : WF_vars(WorkerExit(u))
    /\ WF_vars(WcWorkerFinished)
    /\ WF_vars(WcExtendQueue)
    /\ WF_vars(WcSetThreadsZero)
    /\ WF_vars(WcZeroJoin)
    /\ WF_vars(WcSetThreadsShrink)
    /\ WF_vars(WcShrinkJoin)

RetireSpec == SteadyInit /\ [][RetireNext]_vars /\ RetireFairness

-----------------------------------------------------------------------------
\* workerFinished as a function of the WorkerController's fields and of its
\* two arguments: the fields are drawn from the values the operations leave
\* them in (records in cloning order, ready indices below threads.size(), no
\* queued task beside a ready worker), the arguments from every workerID in
\* 0..MaxThreads + 1 and every QUuid; one notification is posted and run.

IncreasingSeqs(S, maxLen) ==
    {s \in UNION {[1..k -> S] : k \in 0..maxLen} :
        \A i \in 1..Len(s) : \A j \in 1..Len(s) : i < j => s[i] < s[j]}

WorkerFinishedInit ==
    \E thr \in IncreasingSeqs(Uuids, MaxThreads) :
    \E rdy \in SUBSET (0..(Len(thr) - 1)) :
    \E k \in 0..MaxTasks :
    \E workerID \in 0..(MaxThreads + 1) :
    \E workerUUID \in Uuids :
        /\ k > 0 => rdy = {}
        /\ tasks = [i \in 1..k |-> i]
        /\ threads = thr
        /\ workersReady = rdy
        /\ isInDestructor = FALSE
        /\ wcQueue = <<WcEv("ready", workerID, workerUUID, <<>>)>>
        /\ wcmode = "loop"
        /\ wcop = IdleOp
        /\ nextUuid = MaxUuid + 1
        /\ wstatus = [u \in Uuids |-> IF u \in Range(thr) THEN "running" ELSE "finished"]
        /\ wqueue = [u \in Uuids |-> <<>>]
        /\ wpc = [u \in Uuids |-> "idle"]
        /\ wtask = [u \in Uuids |-> 0]
        /\ wbound = [u \in Uuids |-> u \in Range(thr)]
        /\ wid = [u \in Uuids |-> IF u \in Range(thr)
                                   THEN CHOOSE i \in 1..Len(thr) : thr[i] = u
                                   ELSE 0]
        /\ procQueue = <<>>
        /\ procpc = "idle"
        /\ procBound = TRUE
        /\ procQuit = FALSE
        /\ delivered = [t \in Tasks |-> 0]
        /\ nextTask = k + 1
        /\ dispatchLog = <<>>
        /\ lastOp = "none"
        /\ SignalsInit

WorkerFinishedNext == WcWorkerFinished

WorkerFinishedSpec == WorkerFinishedInit /\ [][WorkerFinishedNext]_vars

-----------------------------------------------------------------------------
\* State functions used by the properties

Enqueued == 1..(nextTask - 1)
Dispatched == Range(dispatchLog)

TaskCount(q) == Cardinality({i \in 1..Len(q) : q[i].type = "task"})

ReadyPosted(u) ==
    Cardinality({i \in 1..Len(wcQueue) : wcQueue[i].type = "ready" /\ wcQueue[i].uuid = u})

\* Tasks dispatched to worker instance u whose ready notification the
\* WorkerController has not accepted yet: posted receiveTask closures, the
\* receiveTask that is running, and ready notifications still in the queue.
Outstanding(u) ==
    TaskCount(wqueue[u]) + (IF wpc[u] # "idle" THEN 1 ELSE 0) + ReadyPosted(u)

\* Some worker holds task t (posted or running), or its result is posted to
\* the Processor.
OnWorker(t) ==
    \E u \in Uuids :
        \/ \E i \in 1..Len(wqueue[u]) : wqueue[u][i] = TaskEv(t)
        \/ wpc[u] = "fulfill" /\ wtask[u] = t

ResultPosted(t) == \E i \in 1..Len(procQueue) : procQueue[i] = ResultEv(t)

\* Nothing is posted, nothing runs, no call is in progress.
Quiescent ==
    /\ wcQueue = <<>>
    /\ procQueue = <<>>
    /\ wcop = IdleOp
    /\ procpc = "idle"
    /\ \A u \in Uuids : wqueue[u] = <<>> /\ wpc[u] = "idle"

\* The step is the WorkerController running the closure at the head of its queue.
WcRuns(type) ==
    /\ Handling
    /\ Head(wcQueue).type = type
    /\ wcQueue' = Tail(wcQueue)

-----------------------------------------------------------------------------
\* Properties

\* C1 -- No double assignment: in every reachable state, under every
\* interleaving of extendQueue, setNumberOfThreads (shrink, zero, grow) and
\* ready notifications, no worker instance has more than one dispatched task
\* whose ready notification is not yet accepted; a dispatch to a worker that
\* already had one would make the count 2.
NoDoubleAssignment == \A u \in Uuids : Outstanding(u) <= 1

\* A late ready notification of a retired worker has just been discarded
\* while a live worker still works on a dispatched task.
NoDoubleAssignmentWitness ==
    /\ lastOp = "readyDiscarded"
    /\ Len(dispatchLog) >= 2
    /\ \E i \in 1..Len(threads) : Outstanding(threads[i]) = 1

\* C2 -- Ready-set accounting: whenever no WorkerController operation is in
\* progress, |workersReady| plus the number of worker records with an
\* outstanding task equals the number of worker records.
ReadySetAccounting ==
    wcop = IdleOp =>
        Cardinality(workersReady)
          + Cardinality({i \in 1..Len(threads) : Outstanding(threads[i]) > 0})
        = Len(threads)

\* A ready notification has just been accepted, and the pool holds both an
\* idle and a busy worker.
ReadySetAccountingWitness ==
    /\ lastOp = "readyAccepted"
    /\ workersReady # {}
    /\ \E i \in 1..Len(threads) : Outstanding(threads[i]) > 0

\* C7 -- Every index in workersReady is smaller than the number of worker
\* records, in every reachable state.
ReadyIndicesLive == \A i \in workersReady : i < Len(threads)

\* A shrink has just retired the last record and an index is still ready.
ReadyIndicesLiveWitness ==
    /\ lastOp = "shrink"
    /\ workersReady # {}

\* C3 -- No task loss (as claimed): in a steady-state run (thread count never
\* zero but raised or lowered at will, no clearQueue, no destruction), once
\* nothing is posted or running any more, every task given to extendQueue has
\* caused exactly one receiveResult call.
NoTaskLossSteady ==
    Quiescent => \A t \in Enqueued : delivered[t] = 1

\* C4 -- At most once: in every reachable state (any sequence of
\* extendQueue, clearQueue, setNumberOfThreads and destruction) no task has
\* caused more than one receiveResult call, and a task that caused one was
\* given to extendQueue and dispatched by checkTasks before.
AtMostOnce ==
    \A t \in Tasks :
        /\ delivered[t] <= 1
        /\ delivered[t] = 1 => (t \in Enqueued /\ t \in Dispatched)

\* The Controller is destroyed, one task was delivered and another enqueued
\* task was not.
AtMostOnceWitness ==
    /\ wcmode = "done"
    /\ \E t \in Enqueued : delivered[t] = 1
    /\ \E t \in Enqueued : delivered[t] = 0

\* C5 -- Drawn-task accounting (as claimed): every task that checkTasks has
\* removed from the queue is, in every later state, posted to or running on a
\* worker, or posted or delivered to the Processor as a result.
DrawnTaskAccounted ==
    \A t \in Dispatched : OnWorker(t) \/ ResultPosted(t) \/ delivered[t] >= 1

\* C9 -- FIFO dispatch: task ids grow in the order extendQueue appended them
\* (within one call and across calls), and the tasks appear in dispatchLog,
\* the order checkTasks handed them out, in strictly growing order.
FifoDispatch ==
    \A i \in 1..Len(dispatchLog) : \A j \in 1..Len(dispatchLog) :
        i < j => dispatchLog[i] < dispatchLog[j]

\* Two tasks were dispatched, the second while the first was still in flight.
FifoDispatchWitness ==
    /\ Len(dispatchLog) >= 2
    /\ delivered[dispatchLog[1]] = 0
    /\ OnWorker(dispatchLog[2])

\* C6 -- Stale ready notifications are discarded without effect: when the
\* WorkerController runs workerFinished(workerID, uuid) and workerID - 1 is
\* not below the number of records, or the record there holds another uuid,
\* then tasks, threads, workersReady, the workers' queues and the dispatch
\* log stay as they are; with a matching pair exactly that index joins
\* workersReady (and leaves it again only if checkTasks hands it a task).
StaleReadyDiscarded ==
    [][WcRuns("ready") =>
        LET index == ThreadIndexOf(Head(wcQueue).n)
            given == {i \in 0..(Len(threads) - 1) :
                         wqueue'[threads[i + 1]] # wqueue[threads[i + 1]]}
        IN  IF index < Len(threads) /\ threads[index + 1] = Head(wcQueue).uuid
            THEN /\ threads' = threads
                 /\ workersReady' \cup given = workersReady \cup {index}
                 /\ workersReady' \cap given = {}
            ELSE UNCHANGED <<tasks, threads, workersReady, wqueue, dispatchLog>>
    ]_vars

\* A notification whose index is live but whose QUuid is not the record's
\* has just been discarded while a worker is ready.
StaleReadyDiscardedWitness ==
    /\ lastOp = "readyMismatch"
    /\ workersReady # {}

\* No worker instance was ever retired and the Controller lives.
NoneRetired ==
    /\ ~isInDestructor
    /\ \A u \in Uuids : wstatus[u] \in {"none", "running"}

\* C8 -- clearQueue (not destructing) removes exactly the queued tasks: the
\* step empties tasks and changes nothing that belongs to a dispatched task
\* (workers, their queues, posted results, deliveries); a task enters the
\* dispatch log only from the queue (or from the deque extendQueue is
\* appending), so a cleared task is never dispatched, and only dispatched
\* tasks are delivered; and as long as no worker is retired, every dispatched
\* task has been delivered once nothing is posted or running any more.
ClearQueueExact ==
    /\ [](Quiescent /\ NoneRetired => \A t \in Dispatched : delivered[t] = 1)
    /\ [][/\ (WcRuns("clear") /\ ~isInDestructor) =>
               /\ tasks' = <<>>
               /\ UNCHANGED <<threads, workersReady, dispatchLog, wVars,
                              procQueue, delivered>>
          /\ \A t \in Range(dispatchLog') \ Dispatched :
               \/ t \in Range(tasks)
               \/ WcRuns("extend") /\ t \in Range(Head(wcQueue).ts)
          /\ \A t \in Tasks : delivered'[t] > delivered[t] => t \in Dispatched
       ]_vars

\* clearQueue has just removed a queued task while a dispatched task is
\* still on its worker.
ClearQueueExactWitness ==
    /\ lastOp = "clear"
    /\ \E t \in Enqueued : t \notin Dispatched
    /\ \E t \in Dispatched : OnWorker(t)

\* C10 -- Once isInDestructor is set, extendQueue, clearQueue and a
\* setNumberOfThreads call asking for more workers than exist are dropped:
\* the step leaves tasks, threads, workersReady, the workers' queues and the
\* dispatch log unchanged.
DestructingDrops ==
    [][(/\ isInDestructor
        /\ \/ WcRuns("extend")
           \/ WcRuns("clear")
           \/ WcRuns("setThreads") /\ Head(wcQueue).n > Len(threads))
       => UNCHANGED <<tasks, threads, workersReady, wqueue, dispatchLog>>
    ]_vars

\* The destructor's event pumping has just run an extendQueue call and
\* dropped it; the queue still holds an earlier task.
DestructingDropsWitness ==
    /\ isInDestructor
    /\ lastOp = "extendDropped"
    /\ tasks # <<>>

\* The step keeps the records at positions 1..k of threads: their QUuids,
\* their membership in workersReady, their threads' run state and their ids.
RecordsKept(k) ==
    /\ Len(threads') >= k
    /\ SubSeq(threads', 1, k) = SubSeq(threads, 1, k)
    /\ workersReady' \cap (0..(k - 1)) = workersReady \cap (0..(k - 1))
    /\ \A i \in 1..k :
          /\ wstatus'[threads[i]] = wstatus[threads[i]]
          /\ wid'[threads[i]] = wid[threads[i]]

\* C11 -- setNumberOfThreads(n) postcondition, not destructing: a call with
\* n > 0 and n >= threads.size() (grow or same size) ends with n records and leaves
\* the existing records, their QUuids and their ready/busy status as they
\* were; a call with 0 < n < threads.size() starts the shrink loop for n,
\* every step while the loop runs keeps the records 0..n-1 with their QUuids
\* and ready status, and the loop ends with exactly n records; the zero
\* branch ends with no record.
SetThreadCountPost ==
    [][~isInDestructor =>
        /\ (WcRuns("setThreads") /\ Head(wcQueue).n # 0
                                 /\ Head(wcQueue).n >= Len(threads)) =>
              /\ Len(threads') = Head(wcQueue).n
              /\ RecordsKept(Len(threads))
              /\ \A i \in 1..Len(threads) : wqueue'[threads[i]] = wqueue[threads[i]]
              /\ wcop' = IdleOp
        /\ (WcRuns("setThreads") /\ Head(wcQueue).n # 0
                                 /\ Head(wcQueue).n < Len(threads)) =>
              /\ wcop'.op = "shrink" /\ wcop'.n = Head(wcQueue).n
              /\ RecordsKept(Head(wcQueue).n)
        /\ wcop.op = "shrink" =>
              /\ RecordsKept(wcop.n)
              /\ wcop' = IdleOp => Len(threads') = wcop.n
              /\ wcop' # IdleOp => wcop'.op = "shrink" /\ wcop'.n = wcop.n
        /\ (WcRuns("setThreads") /\ Head(wcQueue).n = 0) => wcop'.op = "zero"
        /\ wcop.op = "zero" =>
              /\ wcop' = IdleOp => threads' = <<>>
              /\ wcop' # IdleOp => wcop' = wcop
    ]_vars

\* A shrink has just returned; the surviving record is busy with a task
\* dispatched before the shrink.
SetThreadCountPostWitness ==
    /\ lastOp = "shrink"
    /\ ~isInDestructor
    /\ Len(threads) = 1
    /\ 0 \notin workersReady
    /\ Outstanding(threads[1]) = 1

\* The pool has no worker record, no setNumberOfThreads call is in progress
\* and the Controller lives: the state between the return of
\* setNumberOfThreads(0) (or a construction with zero threads) and the next
\* grow.
PoolAtZero ==
    /\ threads = <<>>
    /\ wcop = IdleOp
    /\ wcmode = "loop"
    /\ ~isInDestructor

\* C12 -- No result while the pool is at zero (as claimed): from the return
\* of setNumberOfThreads(0) to the Processor until the thread count is
\* raised again, no step is a receiveResult call, whatever was executing
\* when the pool was set to zero and whatever extendQueue adds meanwhile.
NoResultWhileZero ==
    [][PoolAtZero => delivered' = delivered]_vars

\* A setNumberOfThreads(n), n > 0, call is posted to the WorkerController.
GrowPosted ==
    \E i \in 1..Len(wcQueue) : wcQueue[i].type = "setThreads" /\ wcQueue[i].n > 0

\* C13 -- Resume after zero: when setNumberOfThreads(n), n > 0, runs on a
\* pool without workers (not destructing), it hands the first min(n, queue
\* length) queued tasks to the new workers in queue order and leaves the
\* rest queued; and every task that is queued while the pool is at zero and
\* such a call is posted is eventually delivered to receiveResult, given no
\* clearQueue, no further resize and no destruction.
ResumeAfterZero ==
    /\ [][(WcRuns("setThreads") /\ threads = <<>> /\ Head(wcQueue).n > 0
                                /\ ~isInDestructor) =>
            LET m == IF Head(wcQueue).n < Len(tasks)
                     THEN Head(wcQueue).n ELSE Len(tasks)
            IN  /\ dispatchLog' = dispatchLog \o SubSeq(tasks, 1, m)
                /\ tasks' = SubSeq(tasks, m + 1, Len(tasks))
                /\ \A i \in 1..m : wqueue'[threads'[i]] = <<TaskEv(tasks[i])>>
          ]_vars
    /\ \A t \in Tasks :
          (t \in Range(tasks) /\ threads = <<>> /\ GrowPosted) ~> (delivered[t] = 1)

\* The pool has just been raised from zero with more tasks queued than
\* workers created: some were dispatched, the rest are still queued.
ResumeAfterZeroWitness ==
    /\ lastOp = "grow"
    /\ dispatchLog # <<>>
    /\ tasks # <<>>
    /\ \A t \in Tasks : delivered[t] = 0

\* C14 -- Shutdown terminates: once ~WorkerController has started, it
\* eventually returns, with the Processor's thread finished (hence any
\* BlockingQueued call the Processor was blocked in released) and every
\* worker thread joined, whatever the Processor and the workers were doing
\* when the destruction began.
ShutdownTerminates ==
    isInDestructor ~>
        (/\ wcmode = "done"
         /\ procpc = "finished"
         /\ threads = <<>>
         /\ \A u \in Uuids : wstatus[u] \in {"none", "finished"})

\* The destructor runs while the Processor is blocked in a call to the
\* WorkerController and a worker is executing a task.
ShutdownTerminatesWitness ==
    /\ wcmode = "dtor"
    /\ procpc = "blocked"
    /\ \E u \in Uuids : wpc[u] = "fulfill"

\* ~WorkerController has asked a worker thread of the pool to quit.
StoppingBegan ==
    /\ wcmode = "dtor"
    /\ \E i \in 1..Len(threads) : wstatus[threads[i]] \in {"quitting", "finished"}

\* C15 -- Teardown order (as claimed): a binding is removed only once
\* isInDestructor is set; when the destructor stops the first worker thread,
\* the Processor's binding and every worker's bindings are already removed;
\* when the Processor's thread is asked to quit, every worker thread is
\* joined and threads and workersReady are empty; and the destructor has
\* returned only if the Processor's thread has finished.
TeardownOrder ==
    /\ (\/ ~procBound
        \/ \E u \in Uuids : WorkerLoopRuns(u) /\ ~wbound[u]) => isInDestructor
    /\ StoppingBegan =>
          /\ ~procBound
          /\ \A i \in 1..Len(threads) : ~wbound[threads[i]]
    /\ procQuit =>
          /\ threads = <<>>
          /\ workersReady = {}
          /\ \A u \in Uuids : wstatus[u] \in {"none", "finished"}
    /\ wcmode = "done" => procpc = "finished"

-----------------------------------------------------------------------------
\* Signal / SlotProvider layer: state functions

\* The number of rows for slot of receiver r in e's connectedSlots
RowCount(e, r, slot) ==
    Cardinality({i \in 1..Len(connectedSlots[e][r]) : connectedSlots[e][r][i].slot = slot})

\* The number of times e stands under slot in r's slotsToConnectedSignals
InverseCount(r, slot, e) ==
    Cardinality({i \in 1..Len(slotsToConnectedSignals[r][slot]) :
                    slotsToConnectedSignals[r][slot][i] = e})

\* This step is the return of thread t from a registerSlot call.
RegisterSlotReturns(t) ==
    /\ callpc[t].op = "registerSlot"
    /\ callpc'[t] = CallIdle

\* This step is the return of thread t from a disconnect call with both
\* providers given: its last local call is the one on the receiver.
DisconnectPairReturns(t) ==
    /\ callpc[t].op = "disconnect"
    /\ callpc'[t] = CallIdle
    /\ Head(callpc[t].todo).on = "slots"
    /\ Head(callpc[t].todo).other # 0

\* This step belongs to a call that names e, r and slot, wildcards included.
CallTouches(e, r, slot) ==
    \E t \in CallerThreads :
        /\ callpc[t].op \in {"registerSlot", "disconnect"}
        /\ StepNames(t).e \subseteq {0, e}
        /\ StepNames(t).r \subseteq {0, r}
        /\ StepNames(t).slot \subseteq {0, slot}

\* C16 -- Connection uniqueness and net parity: e's connectedSlots never
\* holds two rows for the same receiver and slot; when registerSlot(r, slot)
\* on e returns there is exactly one such row, when disconnect(slot, e, r)
\* returns there is none, and the number of rows changes only within a call
\* that names e, r and slot.
ConnectionUnique ==
    /\ [](\A e \in Emitters, r \in Receivers :
            \A i, j \in 1..Len(connectedSlots[e][r]) :
                connectedSlots[e][r][i].slot = connectedSlots[e][r][j].slot => i = j)
    /\ [][\A t \in CallerThreads :
            \A e \in StepNames(t).e, r \in StepNames(t).r, slot \in StepNames(t).slot \ {0} :
                /\ RegisterSlotReturns(t) => RowCount(e, r, slot)' = 1
                /\ DisconnectPairReturns(t) => RowCount(e, r, slot)' = 0]_vars
    /\ [][connectedSlots' # connectedSlots =>
            \A e \in Emitters, r \in Receivers, slot \in Slots :
                RowCount(e, r, slot)' # RowCount(e, r, slot) => CallTouches(e, r, slot)]_vars

\* A registerSlot call has locked globalMutex and finds its row present.
ConnectionUniqueWitness ==
    \E t \in CallerThreads :
        /\ callpc[t].op = "registerSlot"
        /\ Head(callpc[t].todo).on = "append"
        /\ ConnectionExists(Head(callpc[t].todo).target, Head(callpc[t].todo).other,
                            Head(callpc[t].todo).slot)

\* C17 -- Forward/inverse consistency: whenever globalMutex is free, for
\* every emitter e, receiver r and slot, e's connectedSlots holds a row for
\* (r, slot) exactly as often as r's slotsToConnectedSignals lists e under
\* slot.
TablesConsistent ==
    globalMutex = 0 =>
        \A e \in Emitters, r \in Receivers, slot \in Slots :
            RowCount(e, r, slot) = InverseCount(r, slot, e)

\* globalMutex is free, an endpoint has been destroyed and a connection
\* between two other endpoints stands in both tables.
TablesConsistentWitness ==
    /\ globalMutex = 0
    /\ \/ \E e \in Emitters : ~signalAlive[e]
       \/ \E r \in Receivers : ~receiverAlive[r]
    /\ \E e \in Emitters, r \in Receivers, slot \in Slots :
          RowCount(e, r, slot) = 1 /\ InverseCount(r, slot, e) = 1

\* The closures for slot, posted on behalf of e, that wait in r's event queue
PostedCount(e, r, slot) ==
    Cardinality({i \in 1..Len(eventQueue[r]) :
                    eventQueue[r][i].e = e /\ eventQueue[r][i].slot = slot})

\* This step is the return of thread t from a disconnect call, of any shape.
DisconnectCallReturns(t) ==
    /\ callpc[t].op = "disconnect"
    /\ callpc'[t] = CallIdle

\* C18 -- No delivery after disconnect: when a disconnect call that names
\* (e, slot, r), wildcards included, returns, e's connectedSlots holds no row
\* for (r, slot); a row that is absent comes back only through a step of
\* registerSlot(r, slot) on e; and an emission of e that starts while the row
\* is absent neither runs slot of r nor posts a closure for it, whatever the
\* connection type.
NoDeliveryAfterDisconnect ==
    /\ [][\A t \in CallerThreads :
            DisconnectCallReturns(t) =>
                \A e \in Emitters, r \in Receivers, slot \in Slots :
                    /\ StepNames(t).e \subseteq {0, e}
                    /\ StepNames(t).r \subseteq {0, r}
                    /\ StepNames(t).slot \subseteq {0, slot}
                    => RowCount(e, r, slot)' = 0]_vars
    /\ [][connectedSlots' # connectedSlots =>
            \A e \in Emitters, r \in Receivers, slot \in Slots :
                RowCount(e, r, slot) = 0 /\ RowCount(e, r, slot)' > 0 =>
                    \E t \in CallerThreads :
                        /\ callpc[t].op = "registerSlot"
                        /\ StepNames(t) = [e |-> {e}, r |-> {r}, slot |-> {slot}]]_vars
    /\ [][\A e \in Emitters :
            <<e, 0, 0>> \in called' =>
                \A r \in Receivers, slot \in Slots :
                    RowCount(e, r, slot) = 0 =>
                        /\ <<e, r, slot>> \notin called'
                        /\ PostedCount(e, r, slot)' = PostedCount(e, r, slot)]_vars

\* An emission of e has just run while the key of r stands in e's
\* connectedSlots with an empty vector: the rows of r were connected and then
\* disconnected slot by slot.
NoDeliveryAfterDisconnectWitness ==
    \E e \in Emitters, r \in Receivers :
        /\ <<e, 0, 0>> \in called
        /\ r \in connectedKeys[e]
        /\ connectedSlots[e][r] = <<>>

\* C19 -- Destruction safety for emitters (as claimed): once ~Signal of e has
\* returned, no step runs a slot on behalf of e, closures of e that wait in
\* a receiver's event queue included.
NoCallAfterSignalDestroyed ==
    \A c \in called : c[2] # 0 => signalAlive[c[1]]

\* The entries of a vector of slotsToConnectedSignals that are not emitter e
WithoutSignal(signalProviders, e) ==
    SelectSeq(signalProviders, LAMBDA x : x # e)

FifoPerPair ==
    /\ [](\A r \in Receivers :
            \A i, j \in 1..Len(eventQueue[r]) :
                i < j /\ eventQueue[r][i].e = eventQueue[r][j].e
                    => eventQueue[r][i].n <= eventQueue[r][j].n)
    /\ [][\A r \in Receivers :
            Len(eventQueue'[r]) < Len(eventQueue[r]) =>
                \/ /\ eventQueue'[r] = Tail(eventQueue[r])
                   /\ called' = {<<Head(eventQueue[r]).e, r, Head(eventQueue[r]).slot>>}
                \/ ~receiverAlive'[r] /\ eventQueue'[r] = <<>>]_vars

\* Closures of two successive emissions of one emitter wait in one
\* receiver's event queue.
FifoPerPairWitness ==
    \E r \in Receivers :
        /\ Len(eventQueue[r]) >= 2
        /\ eventQueue[r][1].e = eventQueue[r][2].e
        /\ eventQueue[r][1].n < eventQueue[r][2].n

\* Thread t, inside an operator(), calls an invoker in this step.
Invokes(t) ==
    /\ frames[t] # <<>>
    /\ Top(t).kind = "emit"
    /\ frames'[t] # frames[t]
    /\ Len(frames'[t]) >= Len(frames[t])

\* The row that invoker belongs to
InvokedRow(t) ==
    LET f == Top(t)
        next == NextRow(f.e, f.r, f.i, f.keys)
    IN  [e |-> f.e, r |-> next.r, slot |-> connectedSlots[f.e][next.r][next.i].slot,
         type |-> connectedSlots[f.e][next.r][next.i].type]

\* C22 -- An Auto connection delivers by the threads as they are when the
\* signal is emitted: if the emitting thread is the thread the receiver then
\* lives on, the slot runs at once on the emitting thread and nothing is
\* posted; otherwise one closure joins the receiver's queue and the emitting
\* thread goes on with its operator() without waiting.
AutoResolvedAtEmission ==
    [][\A t \in CallerThreads :
          Invokes(t) =>
              LET row == InvokedRow(t)
                  top == frames'[t][Len(frames'[t])]
              IN  row.type = "auto" =>
                      IF receiverThread[row.r] = t
                      THEN /\ called' = {<<row.e, row.r, row.slot>>}
                           /\ top.kind = "slot" /\ top.r = row.r /\ top.slot = row.slot
                           /\ eventQueue' = eventQueue
                      ELSE /\ called' = {}
                           /\ top.kind = "emit"
                           /\ Len(eventQueue'[row.r]) = Len(eventQueue[row.r]) + 1
                           /\ LET posted == eventQueue'[row.r][Len(eventQueue'[row.r])]
                              IN  /\ posted.e = row.e /\ posted.slot = row.slot
                                  /\ posted.waiter = 0]_vars

\* A receiver that was moved off the thread it was constructed on has a slot
\* run directly by an emission made on its new thread, through a connection
\* of type Auto.
AutoResolvedAtEmissionWitness ==
    \E t \in CallerThreads :
        /\ t # MainThread
        /\ Len(frames[t]) >= 2
        /\ Top(t).kind = "slot"
        /\ receiverThread[Top(t).r] = t
        /\ called = {<<Top(t).e, Top(t).r, Top(t).slot>>}
        /\ \E i \in 1..Len(connectedSlots[Top(t).e][Top(t).r]) :
              /\ connectedSlots[Top(t).e][Top(t).r][i].slot = Top(t).slot
              /\ connectedSlots[Top(t).e][Top(t).r][i].type = "auto"

\* C23 -- signalSender() called from inside a slot of receiver r that runs
\* because of emitter e returns e, whatever the connection type and whatever
\* other threads emit to r meanwhile; called while no slot of r is running it
\* returns null.
SenderTracked ==
    /\ \A t \in CallerThreads :
          (Runs(t) /\ frames[t] # <<>>) => SignalSender(Top(t).r) = Top(t).e
    /\ \A r \in Receivers : RunningFor(r) = {} => SignalSender(r) = 0

\* Thread t enters callSlot in this step (direct delivery or posted closure).
EntersSlot(t) ==
    /\ Len(frames'[t]) > 0
    /\ frames'[t][Len(frames'[t])].kind = "slot"
    /\ Len(frames'[t]) > Len(frames[t]) \/ frames[t] = <<>>
    /\ frames'[t] # frames[t]

\* Thread t leaves callSlot in this step.
LeavesSlot(t) ==
    /\ frames[t] # <<>>
    /\ Top(t).kind = "slot"
    /\ frames'[t] = Pop(frames[t])

\* C24 -- The sender stack kept under thread key k is pushed and popped only
\* by code that runs on thread k, also when the delivery is a Direct one
\* emitted from another thread.
SenderStackConfined ==
    [][\A r \in Receivers, k \in CallerThreads :
          signalSenders'[r][k] # signalSenders[r][k] =>
              \A t \in CallerThreads : (EntersSlot(t) \/ LeavesSlot(t)) => t = k]_vars

\* C25 -- No thread acquires globalMutex while it holds the
\* connectedSlotsMutex of some signal, calls made from inside a slot that a
\* Direct emission runs included.
GlobalBeforeLocal ==
    [][\A t \in CallerThreads :
          (globalMutex' = t /\ globalMutex # t) =>
              \A e \in Emitters : connectedSlotsMutex[e] # t]_vars

\* The rows the loops of an operator() of e have yet to reach after row i of
\* receiver r, with keys still to visit
RECURSIVE Unvisited(_, _, _, _)
Unvisited(e, r, i, keys) ==
    LET next == NextRow(e, r, i, keys)
    IN  IF next.r = 0 THEN <<>>
        ELSE <<[r |-> next.r, slot |-> connectedSlots[e][next.r][next.i].slot]>>
             \o Unvisited(e, next.r, next.i, next.keys)

\* C26 -- While an operator() of emitter e is under way, a connect or
\* disconnect that a directly run slot issues does not reach the traversal:
\* either e's table is left as it is until the traversal is over, or the
\* traversal goes on over the rows it had yet to reach, its iterators valid.
NoMutationDuringTraversal ==
    [][\A t \in CallerThreads : \A i \in 1..Len(frames[t]) :
          LET f == frames[t][i]
          IN  (/\ f.kind = "emit"
               /\ i <= Len(frames'[t])
               /\ \/ connectedSlots'[f.e] # connectedSlots[f.e]
                  \/ connectedKeys'[f.e] # connectedKeys[f.e])
              => /\ ~frames'[t][i].stale
                 /\ Unvisited(f.e, f.r, f.i, f.keys)' = Unvisited(f.e, f.r, f.i, f.keys)]_vars

\* C27 -- A slot that an emission of e runs directly may emit, e again or
\* another signal, on the same thread: the lock of e's connectedSlotsMutex
\* does not make it wait.  The operator() further out stays where it is while
\* anything runs above it, every invoker call takes the first row not yet
\* reached, and an operator() returns only when no row is left.
ReentrantEmission ==
    /\ [](\A t \in CallerThreads, e \in Emitters :
             (Runs(t) /\ Traversing(frames[t], e)) => MayLock(connectedSlotsMutex[e], t))
    /\ [][\A t \in CallerThreads : \A i \in 1..(Len(frames[t]) - 1) :
             frames[t][i].kind = "emit" =>
                 i <= Len(frames'[t]) /\ frames'[t][i] = frames[t][i]]_vars
    /\ [][\A t \in CallerThreads :
             Invokes(t) =>
                 LET f == Top(t)
                     g == frames'[t][Len(frames[t])]
                     rest == Unvisited(f.e, f.r, f.i, f.keys)
                 IN  /\ rest # <<>>
                     /\ Head(rest) = [r |-> g.r, slot |-> connectedSlots[g.e][g.r][g.i].slot]
                     /\ Unvisited(g.e, g.r, g.i, g.keys) = Tail(rest)]_vars
    /\ [][\A t \in CallerThreads :
             (/\ frames[t] # <<>>
              /\ Top(t).kind = "emit"
              /\ frames'[t] = Pop(frames[t]))
             => Unvisited(Top(t).e, Top(t).r, Top(t).i, Top(t).keys) = <<>>]_vars

\* An operator() of e, begun by a slot that an outer operator() of the same e
\* runs directly, has in its turn a slot running.
ReentrantEmissionWitness ==
    \E t \in CallerThreads :
        /\ Len(frames[t]) >= 4
        /\ frames[t][1].kind = "emit"
        /\ frames[t][2].kind = "slot"
        /\ frames[t][3].kind = "emit"
        /\ frames[t][3].e = frames[t][1].e
        /\ frames[t][4].kind = "slot"
        /\ connectedSlotsMutex[frames[t][1].e] = t

\* C28 -- A BlockingQueued invocation whose receiver lives on the emitting
\* thread fails where it is made: nothing is posted, no slot runs, and the
\* thread goes on with its operator() instead of waiting for itself.
BlockingOnOwnThreadFails ==
    [][\A t \in CallerThreads :
          (Invokes(t) /\ InvokedRow(t).type = "blocking"
                      /\ receiverThread[InvokedRow(t).r] = t)
          => /\ frames'[t][Len(frames'[t])].kind = "emit"
             /\ eventQueue' = eventQueue
             /\ called' = {}]_vars

\* C29 -- disconnect with neither an emitter nor a receiver is rejected: the
\* call changes no table and ends as a failure for its caller, not as a
\* return.
BothNullRejected ==
    [][(\E slot \in Slots \cup {0} : called' = {<<0, 0, slot>>}) =>
          /\ connectedSlots' = connectedSlots
          /\ connectedKeys' = connectedKeys
          /\ slotsToConnectedSignals' = slotsToConnectedSignals
          /\ \E t \in CallerThreads :
                callpc[t] = CallIdle /\ callpc'[t].op = "failed"]_vars

\* The part of it that the call does keep: no table changes.
BothNullChangesNothing ==
    [][(\E slot \in Slots \cup {0} : called' = {<<0, 0, slot>>}) =>
          /\ connectedSlots' = connectedSlots
          /\ connectedKeys' = connectedKeys
          /\ slotsToConnectedSignals' = slotsToConnectedSignals]_vars

\* The arguments of the disconnect call thread t is in: its last local call
\* is made on the provider that was named, with the other one as argument.
DisconnectArgs(t) ==
    LET last == callpc[t].todo[Len(callpc[t].todo)]
    IN  IF last.on = "slots"
        THEN [slot |-> last.slot, e |-> last.other, r |-> last.target]
        ELSE [slot |-> last.slot, e |-> last.target, r |-> last.other]

\* Some row of a table matches the arguments, null being a wildcard.
MatchesRow(args) ==
    \E e \in Emitters, r \in Receivers, slot \in Slots :
        /\ args.e \in {0, e}
        /\ args.r \in {0, r}
        /\ args.slot \in {0, slot}
        /\ RowCount(e, r, slot) > 0 \/ InverseCount(r, slot, e) > 0

\* C30 -- A disconnect whose arguments match no row leaves the rows of every
\* table as they are and ends without an error.
DisconnectIdempotent ==
    [][\A t \in CallerThreads :
          (callpc[t].op = "disconnect" /\ ~MatchesRow(DisconnectArgs(t))) =>
              /\ connectedSlots' = connectedSlots
              /\ slotsToConnectedSignals' = slotsToConnectedSignals
              /\ callpc'[t].op # "crashed"]_vars

\* The row (e, r, slot) is one the arguments select, null being a wildcard.
Matches(args, e, r, slot) ==
    /\ args.e \in {0, e}
    /\ args.r \in {0, r}
    /\ args.slot \in {0, slot}

\* The rows of a vector of e's connectedSlots under key r, and the entries of
\* r's slotsToConnectedSignals under slot, that the arguments do not select
KeptRows(args, e, r, rows) ==
    SelectSeq(rows, LAMBDA row : ~Matches(args, e, r, row.slot))

KeptSignals(args, r, slot, signalProviders) ==
    SelectSeq(signalProviders, LAMBDA x : ~Matches(args, x, r, slot))

\* C31 -- Wildcard disconnect removes exactly the matching rows: when
\* disconnect(slot, E, R) with E or R given returns, neither e's
\* connectedSlots nor r's slotsToConnectedSignals holds a row (e, r, slot)
\* that equals every non-null argument; and no step taken while the call is
\* under way changes a row that differs from a non-null argument.
WildcardDisconnectExact ==
    [][\A t \in CallerThreads :
          callpc[t].op = "disconnect" =>
              LET args == DisconnectArgs(t)
              IN  /\ \A e \in Emitters, r \in Receivers :
                        KeptRows(args, e, r, connectedSlots'[e][r])
                            = KeptRows(args, e, r, connectedSlots[e][r])
                  /\ \A r \in Receivers, slot \in Slots :
                        KeptSignals(args, r, slot, slotsToConnectedSignals'[r][slot])
                            = KeptSignals(args, r, slot, slotsToConnectedSignals[r][slot])
                  /\ DisconnectCallReturns(t) =>
                        \A e \in Emitters, r \in Receivers, slot \in Slots :
                            Matches(args, e, r, slot) =>
                                /\ RowCount(e, r, slot)' = 0
                                /\ InverseCount(r, slot, e)' = 0]_vars

\* disconnect(slot, e, nullptr) is about to make its last local call, the one
\* on e: e still holds the row of slot under two receivers, and another row
\* that names another slot.
WildcardDisconnectExactWitness ==
    \E t \in CallerThreads :
        /\ callpc[t].op = "disconnect"
        /\ callpc[t].dying = <<>>
        /\ Len(callpc[t].todo) = 1
        /\ LET args == DisconnectArgs(t)
           IN  /\ args.slot # 0 /\ args.e # 0 /\ args.r = 0
               /\ \E r \in Receivers : RowCount(args.e, r, args.slot) = 1
               /\ \E r \in Receivers, slot \in Slots :
                     slot # args.slot /\ RowCount(args.e, r, slot) = 1

\* The operator() call f has yet to reach the row of slot under key r: the
\* row stands behind the row it invoked last, or in a vector whose key it has
\* yet to visit.
RowAhead(f, r, slot) ==
    \E k \in 1..Len(connectedSlots[f.e][r]) :
        /\ connectedSlots[f.e][r][k].slot = slot
        /\ IF f.r = r THEN k > f.i ELSE \E j \in 1..Len(f.keys) : f.keys[j] = r

\* The number of running operator() calls with arguments n, of ChainedSignal
\* (chained) or of the other signals, that have yet to reach the row of slot
\* under key r
EmitsAhead(n, chained, r, slot) ==
    Cardinality(UNION {{<<t, i>> : i \in {j \in 1..Len(frames[t]) :
                                            /\ frames[t][j].kind = "emit"
                                            /\ (frames[t][j].e = ChainedSignal) = chained
                                            /\ frames[t][j].n = n
                                            /\ RowAhead(frames[t][j], r, slot)}} :
                       t \in CallerThreads})

\* The number of toSlot() slots entered with arguments n that have yet to
\* call operator()
ToSlotEntered(n) ==
    Cardinality(UNION {{<<t, i>> : i \in {j \in 1..Len(frames[t]) :
                                            /\ frames[t][j].kind = "slot"
                                            /\ frames[t][j].r = ChainedSignal
                                            /\ frames[t][j].slot = ToSlot
                                            /\ frames[t][j].n = n
                                            /\ frames[t][j].i = 0}} :
                       t \in CallerThreads})

\* The emissions of ChainedSignal that the emission with arguments n has yet
\* to cause: operator() calls of other signals that have yet to reach their
\* toSlot() row, posted closures of toSlot(), and toSlot() slots that were
\* entered and have yet to call operator().
ChainedPending(n) ==
    EmitsAhead(n, FALSE, ChainedSignal, ToSlot)
    + Cardinality({i \in 1..Len(eventQueue[ChainedSignal]) :
                      /\ eventQueue[ChainedSignal][i].slot = ToSlot
                      /\ eventQueue[ChainedSignal][i].n = n})
    + ToSlotEntered(n)

\* The calls of slot of r with arguments n that are under way from
\* ChainedSignal: operator() calls of ChainedSignal that have yet to reach the
\* row, and closures posted to r.
Delivering(n, r, slot) ==
    EmitsAhead(n, TRUE, r, slot)
    + Cardinality({i \in 1..Len(eventQueue[r]) :
                      /\ eventQueue[r][i].e = ChainedSignal
                      /\ eventQueue[r][i].slot = slot
                      /\ eventQueue[r][i].n = n})

\* The calls of slot of r with arguments n that are still to come by way of
\* ChainedSignal, the tables being as they are
ToCome(n, r, slot) ==
    ChainedPending(n) * RowCount(ChainedSignal, r, slot) + Delivering(n, r, slot)

\* In this step callSlot invokes slot of r for ChainedSignal with arguments n.
SlotRunsChained(n, r, slot) ==
    \E t \in CallerThreads :
        /\ EntersSlot(t)
        /\ LET top == frames'[t][Len(frames'[t])]
           IN  top.e = ChainedSignal /\ top.r = r /\ top.slot = slot /\ top.n = n

\* In this step signal e is emitted with arguments n from top-level code.
EmissionBegins(n, e) ==
    /\ emitsMade = n - 1
    /\ emitsMade' = n
    /\ \E t \in CallerThreads : frames'[t] # <<>> /\ frames'[t][Len(frames'[t])].e = e

\* C32 -- Chained signals deliver exactly once: with e connected to toSlot()
\* of ChainedSignal, an emission of e leaves exactly as many calls of
\* ChainedSlot of r to come as ChainedSignal has rows for it, one or none;
\* from then on that number goes down by one with every call of the slot
\* made for ChainedSignal with these arguments, and changes in no other step
\* that leaves the connection tables alone.  So the slot runs once if the row
\* stands and not at all if it was disconnected before the emission.
ChainedOnce ==
    /\ [](\A n \in 1..emitsMade, r \in Receivers \ {ChainedSignal} :
             ToCome(n, r, ChainedSlot) <= 1)
    /\ [][\A n \in 1..emitsMade', r \in Receivers \ {ChainedSignal} :
             /\ \A e \in Emitters \ {ChainedSignal} :
                   EmissionBegins(n, e) =>
                       ToCome(n, r, ChainedSlot)'
                           = RowCount(e, ChainedSignal, ToSlot)
                             * RowCount(ChainedSignal, r, ChainedSlot)
             /\ SlotRunsChained(n, r, ChainedSlot) =>
                   ToCome(n, r, ChainedSlot)' = ToCome(n, r, ChainedSlot) - 1
             /\ (/\ ~SlotRunsChained(n, r, ChainedSlot)
                 /\ emitsMade' = emitsMade
                 /\ connectedSlots' = connectedSlots)
                => ToCome(n, r, ChainedSlot)' = ToCome(n, r, ChainedSlot)]_vars

\* The second emission has reached the operator() of ChainedSignal, on the
\* main thread by a posted closure, after disconnect(slot, ChainedSignal, r)
\* has removed the only row of ChainedSignal: no call of the slot is to come.
ChainedOnceWitness ==
    /\ emitsMade = 2
    /\ callsMade = 1
    /\ \A r \in Receivers : connectedSlots[ChainedSignal][r] = <<>>
    /\ Len(frames[MainThread]) = 2
    /\ frames[MainThread][1].kind = "slot"
    /\ frames[MainThread][1].waiter = 0
    /\ frames[MainThread][2].kind = "emit"
    /\ frames[MainThread][2].e = ChainedSignal
    /\ frames[MainThread][2].n = 2
    /\ frames[MainThread][2].keys = <<>>
    /\ \E t \in CallerThreads \ {MainThread} : frames[t] = <<>>

\* In this step a closure is posted to the Processor.
PostedToProcessor == Len(procQueue') = Len(procQueue) + 1

\* In this step a closure is posted to the WorkerController.
PostedToController == Len(wcQueue') = Len(wcQueue) + 1

\* In this step a receiveTask closure is posted to worker u.
GivenTask(u) == TaskCount(wqueue'[u]) > TaskCount(wqueue[u])

\* C33 -- Worker protocol order: receiveTask of worker u goes from idle to
\* fulfillTask, from there to the post of the result, from there to the post
\* of the ready notification and back to idle, and takes no other step; the
\* result of its task is posted to the Processor in the second of these steps
\* and in no other, the ready notification (workerUUID, uniqueWorkerUUID) is
\* posted to the WorkerController in the third and in no other; so while u is
\* about to post its ready notification the result of its task is at the
\* Processor (posted or run) as long as the Processor's event loop runs, and
\* u is given a task only while it is idle with no task posted to it, and
\* with no ready notification of its own left in the WorkerController's queue
\* once the step is made.
ProtocolOrder ==
    /\ [](\A u \in Uuids :
             (wpc[u] = "postReady" /\ procpc # "finished") =>
                 ResultPosted(wtask[u]) \/ delivered[wtask[u]] > 0)
    /\ [][\A u \in Uuids :
             /\ wpc'[u] # wpc[u] =>
                   <<wpc[u], wpc'[u]>> \in {<<"idle", "fulfill">>,
                                            <<"fulfill", "postReady">>,
                                            <<"postReady", "idle">>}
             /\ (wpc[u] = "fulfill" /\ wpc'[u] = "postReady") =>
                   /\ procQueue' = Append(procQueue, ResultEv(wtask[u]))
                   /\ wcQueue' = wcQueue
             /\ (wpc[u] = "postReady" /\ wpc'[u] = "idle") =>
                   /\ wcQueue' = Append(wcQueue, WcEv("ready", wid[u], u, <<>>))
                   /\ procQueue' = procQueue
             /\ (PostedToProcessor /\ procQueue'[Len(procQueue')] = ResultEv(wtask[u])) =>
                   wpc[u] = "fulfill" /\ wpc'[u] = "postReady"
             /\ (PostedToController /\ wcQueue'[Len(wcQueue')].type = "ready"
                                    /\ wcQueue'[Len(wcQueue')].uuid = u) =>
                   wpc[u] = "postReady" /\ wpc'[u] = "idle"
             /\ GivenTask(u) =>
                   wpc[u] = "idle" /\ TaskCount(wqueue[u]) = 0 /\ ReadyPosted(u)' = 0]_vars

\* The only worker ever created runs its second task, and the result of its
\* first task is at the Processor.
ProtocolOrderWitness ==
    /\ nextUuid = 2
    /\ Len(threads) = 1
    /\ wpc[threads[1]] = "fulfill"
    /\ Len(dispatchLog) = 2
    /\ wtask[threads[1]] = dispatchLog[2]
    /\ ResultPosted(dispatchLog[1]) \/ delivered[dispatchLog[1]] > 0

\* A call of the Processor (setNumberOfThreads, clearQueue, extendQueue) is
\* posted to the WorkerController and not run yet.
ProcessorCallPosted ==
    \E i \in 1..Len(wcQueue) : wcQueue[i].type \in {"setThreads", "clear", "extend"}

\* C34 -- Unbinding cuts all paths: once setupConnections() has run on a
\* worker, the steps of a receiveTask of that worker post nothing, neither to
\* the Processor nor to the WorkerController; and once it has run on the
\* Processor, no call of the Processor is posted to the WorkerController and
\* the Processor waits for none, whatever it calls.
UnbindingCutsPaths ==
    /\ [](~procBound => ~ProcessorCallPosted /\ procpc # "blocked")
    /\ [][\A u \in Uuids :
             (~wbound[u] /\ wpc[u] # wpc'[u]) =>
                 procQueue' = procQueue /\ wcQueue' = wcQueue]_vars

\* A worker the destructor has unbound has run fulfillTask and passed the
\* post of the result, which is not in the Processor's queue, and the
\* Processor is unbound and free to make calls.
UnbindingCutsPathsWitness ==
    /\ isInDestructor
    /\ ~procBound
    /\ procpc = "idle"
    /\ \E u \in Uuids :
          /\ wstatus[u] = "running"
          /\ ~wbound[u]
          /\ wpc[u] = "postReady"
          /\ ~ResultPosted(wtask[u])
          /\ delivered[wtask[u]] = 0
          /\ procQueue = <<>>

\* Thread a waits in a BlockingQueued invocation for a slot of a receiver
\* that lives on thread b, and the closure has yet to return.
WaitsForDelivery(a, b) ==
    IF frames[a] = <<>> THEN FALSE
    ELSE /\ Top(a).kind = "wait"
         /\ receiverThread[Top(a).r] = b

\* Thread b is inside registerSlot or disconnect, globalMutex locked, and its
\* next local call locks the connectedSlotsMutex of an emitter that thread a
\* holds in operator().
WaitsForMutex(b, a) ==
    /\ callpc[b].op \in {"registerSlot", "disconnect"}
    /\ Head(callpc[b].todo).on \in {"append", "signal"}
    /\ connectedSlotsMutex[Head(callpc[b].todo).target] = a

MutualWait(a, b) == a # b /\ WaitsForDelivery(a, b) /\ WaitsForMutex(b, a)

\* C35 -- No deadlock between emission and registry mutation: no state is
\* reached in which a thread inside operator() waits for a BlockingQueued
\* delivery on a second thread while that thread, inside registerSlot,
\* disconnect or a destructor, waits for the connectedSlotsMutex the first
\* one holds.
NoMutualWait == \A a \in CallerThreads, b \in CallerThreads : ~MutualWait(a, b)

\* Once two threads wait for each other neither takes another step.
MutualWaitLasts ==
    [][\A a \in CallerThreads, b \in CallerThreads :
          MutualWait(a, b) => MutualWait(a, b)' /\ frames' = frames /\ callpc' = callpc]_vars

\* C36 -- Work conservation: whenever the WorkerController is between two
\* operations and not in its destructor, and so after each completed
\* setNumberOfThreads, extendQueue, clearQueue and workerFinished, the task
\* queue is empty or no worker is ready.
WorkConservation ==
    (wcop = IdleOp /\ ~isInDestructor) => (tasks = <<>> \/ workersReady = {})

\* extendQueue has just returned: the ready worker was given the first task
\* of the batch, no worker is ready now, and the second task waits.
WorkConservationWitness ==
    /\ lastOp = "extend"
    /\ wcop = IdleOp
    /\ ~isInDestructor
    /\ threads # <<>>
    /\ dispatchLog # <<>>
    /\ workersReady = {}
    /\ tasks # <<>>

\* Worker u, told to quit by setNumberOfThreads, is inside fulfillTask.
RetiredExecuting(u) == wstatus[u] = "quitting" /\ wpc[u] = "fulfill"

\* C37 -- A retired worker's running task: a worker that is inside
\* fulfillTask after setNumberOfThreads (shrink or zero) told its thread to
\* quit leaves fulfillTask only by posting the result of that task to the
\* Processor, and the Processor's receiveResult is eventually run for it; the
\* thread finishes only with no receiveTask running, its record is removed
\* only when it has finished, and setNumberOfThreads returns with no thread
\* still quitting; the ready notification of a worker without a record
\* changes neither workersReady nor any worker's queue.
RetiredTaskCompletes ==
    /\ [][\A u \in Uuids :
             /\ (RetiredExecuting(u) /\ wpc'[u] # "fulfill") =>
                   /\ wpc'[u] = "postReady"
                   /\ procQueue' = Append(procQueue, ResultEv(wtask[u]))
             /\ (wstatus[u] # "finished" /\ wstatus'[u] = "finished") => wpc[u] = "idle"
             /\ (u \in Range(threads) /\ u \notin Range(threads')) => wstatus[u] = "finished"
             /\ lastOp' \in {"zero", "shrink"} => wstatus'[u] # "quitting"
             /\ (WcRuns("ready") /\ Head(wcQueue).uuid = u /\ u \notin Range(threads)) =>
                   /\ workersReady' = workersReady
                   /\ wqueue' = wqueue
                   /\ lastOp' \in {"readyDiscarded", "readyMismatch"}]_vars
    /\ \A t \in Tasks :
          (\E u \in Uuids : RetiredExecuting(u) /\ wtask[u] = t) ~> (delivered[t] = 1)

\* setNumberOfThreads waits in wait() for the thread of a worker that is
\* inside fulfillTask, and the Processor is blocked in the call.
RetiredTaskCompletesWitness ==
    /\ wcop.op \in {"shrink", "zero"}
    /\ procpc = "blocked"
    /\ \E u \in Range(threads) : RetiredExecuting(u) /\ wtask[u] \in Dispatched

-----------------------------------------------------------------------------
\* Shrink runs: a pool in use whose thread count may be set to any value that
\* the worker instances of a run allow, so that one setNumberOfThreads call
\* removes several records.

ShrinkNext ==
    \/ \E n \in 1..MaxUuid : ProcSetNumberOfThreads(n)
    \/ \E k \in 1..MaxBatch : ProcExtendQueue(k)
    \/ ProcReceiveResult
    \/ \E u \in Uuids : WorkerReceiveTask(u)
    \/ \E u \in Uuids : WorkerPostResult(u)
    \/ \E u \in Uuids : WorkerPostReady(u)
    \/ \E u \in Uuids : WorkerExit(u)
    \/ WcWorkerFinished
    \/ WcExtendQueue
    \/ WcSetThreadsShrink
    \/ WcShrinkJoin
    \/ WcSetThreadsGrow
    \/ WcSetThreadsNone

ShrinkSpec == SteadyInit /\ [][ShrinkNext]_vars

\* C38 -- The shrink loop of setNumberOfThreads(n) with 1 <= n < current:
\* while the loop runs, its index is the position of the last record and is
\* not below n, and n is at least 1; each iteration removes exactly the last
\* record and erases exactly its index from workersReady; the decrement of
\* the unsigned index never wraps; the loop goes on with the index one lower
\* while that is not below n, and otherwise the call returns with exactly n
\* records left, the records at the first n positions.
ShrinkLoopExact ==
    /\ [](wcop.op = "shrink" =>
            /\ wcop.n >= 1
            /\ wcop.idx = Len(threads) - 1
            /\ wcop.idx >= wcop.n)
    /\ [][(wcop.op = "shrink" /\ wcop' # wcop) =>
            /\ threads' = SubSeq(threads, 1, wcop.idx)
            /\ workersReady' = workersReady \ {wcop.idx}
            /\ wcop.idx - 1 >= 0
            /\ IF wcop.idx - 1 >= wcop.n
               THEN wcop' = WcOp("shrink", wcop.idx - 1, wcop.n)
               ELSE /\ wcop' = IdleOp
                    /\ lastOp' = "shrink"
                    /\ Len(threads') = wcop.n
                    /\ workersReady' \subseteq 0..(wcop.n - 1)]_vars

\* setNumberOfThreads has returned from its shrink loop: every worker
\* instance of the run was created, the records created last are gone with
\* their threads finished, and one record is left.
ShrinkLoopExactWitness ==
    /\ lastOp = "shrink"
    /\ wcop = IdleOp
    /\ nextUuid = MaxUuid + 1
    /\ Len(threads) = MaxUuid - 2
    /\ wstatus[MaxUuid] = "finished"
    /\ wstatus[MaxUuid - 1] = "finished"

-----------------------------------------------------------------------------
\* Sender stacks.  The connections are made with Qt::DirectConnection or
\* Qt::AutoConnection, all to one slot function of one receiver, which stays
\* on the thread that constructed it.

TrackedReceiver == 1
TrackedSlot == 1

SenderNext ==
    \/ \E t \in CallerThreads :
          /\ Setup(t) /\ MayCall(t)
          /\ \E e \in EmitterChoices, type \in {"direct", "auto"} :
                RegisterSlot(t, e, TrackedReceiver, TrackedSlot, type)
    \/ \E t \in CallerThreads :
          /\ Runs(t) /\ emitsMade < MaxEmits /\ SetupOver
          /\ \E e \in EmitterChoices : OperatorBegins(t, e)
    \/ \E t \in CallerThreads : AppendConnection(t)
    \/ \E t \in CallerThreads : RegisterConnection(t)
    \/ \E t \in CallerThreads : Invoke(t)
    \/ \E t \in CallerThreads : OperatorReturns(t)
    \/ \E t \in CallerThreads, r \in Receivers : RunPosted(t, r)
    \/ \E t \in CallerThreads : SlotReturns(t)

SenderSpec == SignalInit /\ [][SenderNext]_vars

\* The emitters of the slots of receiver r that a thread with this stack of
\* frames is running, outermost first
RECURSIVE SlotEmitters(_, _)
SlotEmitters(stack, r) ==
    IF stack = <<>> THEN <<>>
    ELSE LET f == stack[Len(stack)]
         IN  SlotEmitters(Pop(stack), r)
                 \o (IF f.kind = "slot" /\ f.r = r THEN <<f.e>> ELSE <<>>)

\* How often emitter e is in a deque of senders
Occurrences(queue, e) == Cardinality({i \in 1..Len(queue) : queue[i] = e})

\* The callSlot invocations under way, on any thread, that pushed emitter e
\* on the deque of receiver r under key k
PushedBy(r, k, e) ==
    {<<t, i>> \in CallerThreads \X (1..(2 * MaxEmits)) :
        /\ i <= Len(frames[t])
        /\ frames[t][i].kind = "slot"
        /\ frames[t][i].r = r /\ frames[t][i].key = k /\ frames[t][i].e = e}

\* Every connection to receiver r is of type Auto: each of its slots is run
\* by the thread the receiver lives on.
HomeRun(r) ==
    \A e \in Emitters : \A i \in 1..Len(connectedSlots[e][r]) :
        connectedSlots[e][r][i].type = "auto"

-----------------------------------------------------------------------------
\* Worker ids.  Besides the pool's own workers, a worker that was bound to the
\* WorkerController without an id (workerUUID still 0, the value the
\* constructor sets and setupConnections keeps) notifies the WorkerController
\* while nothing else is posted to it; the QUuid it passes is that of a
\* record, the case in which the id alone decides.

UnsetId == 0

UnsetIdPosted == \E i \in 1..Len(wcQueue) : wcQueue[i].type = "ready" /\ wcQueue[i].n = UnsetId

UnsetIdReady(u) ==
    /\ wcmode = "loop"
    /\ wcQueue = <<>>
    /\ u \in Range(threads)
    /\ wcQueue' = Append(wcQueue, WcEv("ready", UnsetId, u, <<>>))
    /\ UNCHANGED <<tasks, threads, workersReady, isInDestructor, wcmode, wcop, nextUuid>>
    /\ UNCHANGED <<wVars, pVars, oVars>>
    /\ lastOp' = "none"
    /\ UNCHANGED mVars

IndexNext ==
    \/ SteadyNext
    \/ \E u \in Uuids : UnsetIdReady(u)

IndexSpec == SteadyInit /\ [][IndexNext]_vars

\* The 0-based position of the record of worker instance u
PositionOf(u) == (CHOOSE i \in 1..Len(threads) : threads[i] = u) - 1

\* C40 -- Worker index encoding round-trips: a worker instance whose thread
\* is started by setNumberOfThreads has the record at some position i and
\* the worker id i + 1, and keeps both while its thread runs; a ready
\* notification with a set id whose worker instance has a record carries that
\* record's position + 1, workerFinished maps it back to that position and
\* accepts it for that position (the index joins workersReady unless
\* checkTasks hands it a task at once); a notification carrying id 0 is
\* mapped to no position below threads.size() and changes nothing.
IndexRoundTrip ==
    /\ [](\A u \in Range(threads) :
             wstatus[u] # "finished" => wid[u] = PositionOf(u) + 1)
    /\ [](\A j \in 1..Len(wcQueue) :
             (/\ wcQueue[j].type = "ready"
              /\ wcQueue[j].n # UnsetId
              /\ wcQueue[j].uuid \in Range(threads)) =>
                 ThreadIndexOf(wcQueue[j].n) = PositionOf(wcQueue[j].uuid))
    /\ [][\A u \in Uuids :
             (wstatus[u] = "none" /\ wstatus'[u] = "running") =>
                 /\ u \in Range(threads') \ Range(threads)
                 /\ wid'[u] = (CHOOSE i \in 1..Len(threads') : threads'[i] = u)]_vars
    /\ [][WcRuns("ready") =>
             LET ev == Head(wcQueue)
                 given == {i \in 0..(Len(threads) - 1) :
                              wqueue'[threads[i + 1]] # wqueue[threads[i + 1]]}
             IN  /\ (ev.n # UnsetId /\ ev.uuid \in Range(threads)) =>
                        /\ lastOp' = "readyAccepted"
                        /\ workersReady' \cup given = workersReady \cup {PositionOf(ev.uuid)}
                 /\ ev.n = UnsetId =>
                        /\ ~(ThreadIndexOf(ev.n) < Len(threads))
                        /\ lastOp' = "readyDiscarded"
                        /\ UNCHANGED <<tasks, threads, workersReady, wqueue, dispatchLog>>]_vars

\* The worker at position 1 (id 2) has been given a task after its ready
\* notification was accepted, and a notification carrying id 0 with the QUuid
\* of the record at position 0 has just been discarded.
IndexRoundTripWitness ==
    /\ lastOp = "readyDiscarded"
    /\ Len(threads) = 2
    /\ wid[threads[2]] = 2
    /\ Len(dispatchLog) >= 2
    /\ ~UnsetIdPosted
    /\ nextUuid > 1

=============================================================================
